---- MODULE Spec2Model ----
(***************************************************************************)
(* Model of the performance and resilience layer of                        *)
(* centerpoint-connect-api: the HTTP response cache (ResponseCache), the   *)
(* request batcher (RequestBatcher) and the request metrics                *)
(* (RequestMetrics) of src/performance.ts, the authentication rate limiter *)
(* (AuthRateLimiter), the token cache (SecureTokenCache) and the token     *)
(* functions (validateTokenSecurity, maskToken) of src/security.ts, the    *)
(* health monitor (HealthMonitor), and the token resolution of src/auth.ts.*)
(***************************************************************************)
EXTENDS Integers, Sequences, FiniteSets, TLC

(***************************************************************************)
(* Bounds of the model.                                                    *)
(***************************************************************************)
\* the clock (Date.now()) runs over 0..MaxTime
MaxTime == 3
\* caches are constructed with maxSize in 1..MaxCacheSize
MaxCacheSize == 2
\* caches are constructed with defaultTtlMs 0 or MaxDefaultTtl
MaxDefaultTtl == 2
\* ttlMs arguments of set are absent or in 0..MaxTtlArg
MaxTtlArg == 1
\* at most MaxRequests calls of RequestBatcher.add
MaxRequests == 3
\* batchers are constructed with maxBatchSize in 1..MaxBatchSize
MaxBatchSize == 2
\* batchers are constructed with batchWindowMs in 1..MaxBatchWindow
MaxBatchWindow == 2
\* rate limiters are constructed with maxAttempts in 1..MaxAttempts
MaxAttempts == 2
\* rate limiters are constructed with windowMs in 1..MaxWindowMs
MaxWindowMs == 2
\* at most MaxAttemptCalls calls of AuthRateLimiter.isAllowed
MaxAttemptCalls == 4
\* token caches are constructed with defaultTtlMs 0 or MaxTokenTtl
MaxTokenTtl == 2
\* at most MaxRecords calls of recordRequest are followed
MaxRecords == 4
\* response times are 1 or MaxLatency
MaxLatency == 2
\* at most MaxHealthEvents record calls of the health monitor
MaxHealthEvents == 2
\* tokens are a prefix, then at most MaxTokenLen characters, then a suffix
MaxTokenLen == 21

(***************************************************************************)
(* Constants of the program.                                               *)
(***************************************************************************)
\* the number of response times RequestMetrics and HealthMonitor keep
MaxResponseTimes == 1000
\* the success rate, in percent, the highSuccessRate check asks for
MinSuccessRate == 95
\* the average response time the reasonableResponseTime check stays below
MaxAvgResponseTime == 5000
\* how long an error counts as recent: 5 minutes, in milliseconds
RecentErrorMs == 5 * 60 * 1000
\* the length below which validateTokenSecurity takes a token for too short
MinTokenLength == 20
\* the number of different characters below which it warns
MinUniqueChars == 10

VARIABLES
    now,          \* Date.now()
    cache,        \* ResponseCache.cache: a Map, kept as the sequence of its [key, value] pairs
    defaultTtl,   \* ResponseCache.defaultTtl
    maxSize,      \* ResponseCache.maxSize
    insertOrder,  \* history: the cached keys, by the time each was inserted as a new key
    lastOp,       \* history: the last cache operation and what it returned
    batches,      \* RequestBatcher.batches: batch key -> [requests, timeout]
    batchWindow,  \* RequestBatcher.batchWindow
    maxBatchSize, \* RequestBatcher.maxBatchSize
    timers,       \* the armed setTimeout callbacks: [id, key, executor, deadline]
    reqs,         \* the promises returned by add, in call order
    inflight,     \* the executor promises awaited by executeBatch
    timerSeq,     \* the number of setTimeout calls so far: the last timer handle
    calls,        \* history: the executor invocations, in order
    lastSettled,  \* history: the resolve and reject calls of the last forEach, in order
    attempts,     \* AuthRateLimiter.attempts: identifier -> [count, firstAttempt]
    maxAttempts,  \* AuthRateLimiter.maxAttempts
    windowMs,     \* AuthRateLimiter.windowMs
    attemptLog,   \* history: the isAllowed calls, in order: [id, at, allowed]
    tokenCache,   \* SecureTokenCache.cache: key -> [token, expires, hash]
    tokenDefaultTtl, \* SecureTokenCache.defaultTtl
    tokenSets,    \* history: key -> the last set of the key and whether it still stands
    lastToken,    \* history: the last token cache operation and what it returned
    metrics,      \* RequestMetrics.metrics
    health,       \* HealthMonitor: metrics and responseTimes
    recorded,     \* history: the latencies passed to each recordRequest, in call order
    lastStatus,   \* history: what the last getHealthStatus returned, and when
    env,          \* process.env.CENTERPOINT_API_TOKEN
    input,        \* the token at hand, passed to the functions of security.ts
    lastCall,     \* history: the last call of a function of security.ts or auth.ts
    lastResult    \* history: what that call returned or threw

cacheVars == <<cache, defaultTtl, maxSize, insertOrder, lastOp>>
batchVars == <<batches, batchWindow, maxBatchSize, timers, reqs, inflight, timerSeq,
               calls, lastSettled>>
limiterVars == <<attempts, maxAttempts, windowMs, attemptLog>>
tokenVars == <<tokenCache, tokenDefaultTtl, tokenSets, lastToken>>
metricsVars == <<metrics, health, recorded, lastStatus>>
fnVars == <<env, input, lastCall, lastResult>>
vars == <<now, cacheVars, batchVars, limiterVars, tokenVars, metricsVars, fnVars>>
\* what the operations of one component leave alone in the other components
notCacheVars == <<batchVars, limiterVars, tokenVars, metricsVars, fnVars>>
notBatchVars == <<cacheVars, limiterVars, tokenVars, metricsVars, fnVars>>
notLimiterVars == <<cacheVars, batchVars, tokenVars, metricsVars, fnVars>>
notTokenVars == <<cacheVars, batchVars, limiterVars, metricsVars, fnVars>>
notMetricsVars == <<cacheVars, batchVars, limiterVars, tokenVars, fnVars>>
notFnVars == <<now, cacheVars, batchVars, limiterVars, tokenVars, metricsVars>>

(***************************************************************************)
(* JavaScript values.                                                      *)
(***************************************************************************)
\* an optional number: undefined, or a number
Undefined == [has |-> FALSE, val |-> 0]
Num(n) == [has |-> TRUE, val |-> n]
\* an absent string-valued property
NoString == "undefined"
\* JavaScript truthiness of an optional number: undefined and 0 are falsy
TruthyNum(o) == o.has /\ o.val # 0
\* JavaScript truthiness of an optional string: undefined and "" are falsy
TruthyStr(s) == s # NoString /\ s # ""

(***************************************************************************)
(* A JavaScript Map: iteration order is the order in which keys were       *)
(* first added; set on a present key replaces the value in place.          *)
(***************************************************************************)
MapKeys(m) == {m[i].key : i \in 1..Len(m)}
MapHas(m, k) == k \in MapKeys(m)
MapIndex(m, k) == CHOOSE i \in 1..Len(m) : m[i].key = k
MapGet(m, k) == m[MapIndex(m, k)].value
MapDelete(m, k) == SelectSeq(m, LAMBDA p : p.key # k)
MapSetMovingLast(m, k, v) == Append(SelectSeq(m, LAMBDA p : p.key # k), [key |-> k, value |-> v])
MapSet(m, k, v) ==
    IF MapHas(m, k)
    THEN [m EXCEPT ![MapIndex(m, k)] = [key |-> k, value |-> v]]
    ELSE Append(m, [key |-> k, value |-> v])
MapSize(m) == Len(m)
\* m.keys().next().value
MapFirstKey(m) == IF Len(m) = 0 THEN NoString ELSE m[1].key
EmptyMap == <<>>

(***************************************************************************)
(* ResponseCache                                                           *)
(***************************************************************************)
\* config.method?.toUpperCase()
ToUpperCase(s) ==
    CASE s = "get" -> "GET"
      [] s = "post" -> "POST"
      [] OTHER -> s

\* config.headers: undefined, or an object with these properties
NoHeaders == [defined |-> FALSE, accept |-> NoString,
              ifNoneMatch |-> NoString, ifModifiedSince |-> NoString]

\* the request descriptors handed to the cache: method (absent, lower or
\* upper case), url, serialised params (absent or not) and headers
CacheConfigs ==
    { [method |-> NoString, url |-> "/a", params |-> NoString, headers |-> NoHeaders],
      [method |-> "get",    url |-> "/a", params |-> NoString, headers |-> NoHeaders],
      [method |-> "GET",    url |-> "/a", params |-> "p=1",    headers |-> NoHeaders],
      [method |-> "post",   url |-> "/a", params |-> NoString, headers |-> NoHeaders] }

\* the request descriptors of the expiry scenarios: two keys
TtlConfigs ==
    { [method |-> NoString, url |-> "/a", params |-> NoString, headers |-> NoHeaders],
      [method |-> "post",   url |-> "/a", params |-> NoString, headers |-> NoHeaders] }

\* the responses written back: payload, etag and last-modified headers
PlainResponse == [data |-> "d1", etag |-> NoString, lastModified |-> NoString]
CacheResponses ==
    { PlainResponse,
      [data |-> "d2", etag |-> "e1", lastModified |-> "m1"] }

\* the request descriptors of the revalidation scenarios: one key, without
\* headers and with headers the caller has set
ValidatorConfigs ==
    { [method |-> NoString, url |-> "/a", params |-> NoString, headers |-> NoHeaders],
      [method |-> "get", url |-> "/a", params |-> NoString,
       headers |-> [defined |-> TRUE, accept |-> "json",
                    ifNoneMatch |-> "e0", ifModifiedSince |-> NoString]] }

\* responses with no validator, with one of the two and with both
ValidatorResponses ==
    CacheResponses \cup
    { [data |-> "d3", etag |-> "e3", lastModified |-> NoString],
      [data |-> "d4", etag |-> NoString, lastModified |-> "m4"] }

\* the ttlMs argument of set
TtlArgs == {Undefined} \cup {Num(t) : t \in 0..MaxTtlArg}

createCacheKey(config) ==
    LET method == IF TruthyStr(config.method) THEN ToUpperCase(config.method) ELSE "GET"
        key == <<method, ":", config.url>>
    IN  IF TruthyStr(config.params) THEN key \o <<"?", config.params>> ELSE key

NoEntry == [data |-> NoString, timestamp |-> 0, etag |-> NoString,
            lastModified |-> NoString, expires |-> Undefined]

\* const ttl = entry.expires || this.defaultTtl
EntryTtl(entry, dflt) == IF TruthyNum(entry.expires) THEN entry.expires.val ELSE dflt

\* now - entry.timestamp > ttl
IsExpired(entry, t, dflt) == t - entry.timestamp > EntryTtl(entry, dflt)

\* get: the entry returned (hit) or null, and the Map afterwards
CacheLookupTouch(m, key, t, dflt) ==
    IF ~MapHas(m, key)
    THEN [hit |-> FALSE, entry |-> NoEntry, map |-> m]
    ELSE LET entry == MapGet(m, key)
         IN  IF IsExpired(entry, t, dflt)
             THEN [hit |-> FALSE, entry |-> NoEntry, map |-> MapDelete(m, key)]
             ELSE [hit |-> TRUE, entry |-> entry,
                   map |-> MapSet(MapDelete(m, key), key, entry)]
CacheLookup(m, key, t, dflt) ==
    IF ~MapHas(m, key)
    THEN [hit |-> FALSE, entry |-> NoEntry, map |-> m]
    ELSE LET entry == MapGet(m, key)
         IN  IF IsExpired(entry, t, dflt)
             THEN [hit |-> FALSE, entry |-> NoEntry, map |-> MapDelete(m, key)]
             ELSE [hit |-> TRUE, entry |-> entry, map |-> m]

\* set, first part: evict the first key of the Map when the cache is full
EvictWhenOver(m, max) ==
    IF MapSize(m) > max THEN MapDelete(m, MapFirstKey(m)) ELSE m
EvictIfFull(m, max) ==
    IF MapSize(m) >= max
    THEN LET oldestKey == MapFirstKey(m)
         IN  IF oldestKey # NoString THEN MapDelete(m, oldestKey) ELSE m
    ELSE m

\* set, second part: the entry written
NewEntry(response, t, ttlMs) ==
    [data |-> response.data, timestamp |-> t, etag |-> response.etag,
     lastModified |-> response.lastModified, expires |-> ttlMs]

CacheStore(m, max, key, entry) == MapSet(EvictIfFull(m, max), key, entry)

\* history: remove the keys that left the cache, append the key that entered it
OrderAfter(order, removed, added) ==
    LET kept == SelectSeq(order, LAMBDA k : k \notin removed)
    IN  kept \o (IF added \subseteq {kept[i] : i \in 1..Len(kept)} THEN <<>>
                 ELSE <<CHOOSE k \in added : TRUE>>)

NoOp == [op |-> "none", key |-> <<>>, hit |-> FALSE, entry |-> NoEntry,
         evicted |-> {}, ttlArg |-> Undefined, headers |-> NoHeaders]

\* new ResponseCache(defaultTtlMs, maxSize), maxSize out of sizes
CacheInitOf(sizes) ==
    /\ cache = EmptyMap
    /\ defaultTtl \in {0, MaxDefaultTtl}
    /\ maxSize \in sizes
    /\ insertOrder = <<>>
    /\ lastOp = NoOp
CacheInit == CacheInitOf(1..MaxCacheSize)

Get(config) ==
    LET key == createCacheKey(config)
        r == CacheLookup(cache, key, now, defaultTtl)
    IN  /\ cache' = r.map
        /\ insertOrder' = OrderAfter(insertOrder, MapKeys(cache) \ MapKeys(r.map), {})
        /\ lastOp' = [NoOp EXCEPT !.op = "get", !.key = key, !.hit = r.hit,
                                  !.entry = r.entry]
        /\ UNCHANGED <<now, defaultTtl, maxSize, notCacheVars>>

Set(config, response, ttlMs) ==
    LET key == createCacheKey(config)
        evicted == MapKeys(cache) \ MapKeys(EvictIfFull(cache, maxSize))
        entry == NewEntry(response, now, ttlMs)
    IN  /\ cache' = CacheStore(cache, maxSize, key, entry)
        /\ insertOrder' = OrderAfter(insertOrder, evicted, {key})
        /\ lastOp' = [NoOp EXCEPT !.op = "set", !.key = key, !.entry = entry,
                                  !.evicted = evicted, !.ttlArg = ttlMs]
        /\ UNCHANGED <<now, defaultTtl, maxSize, notCacheVars>>

ShouldRefresh(config) ==
    LET key == createCacheKey(config)
        r == CacheLookup(cache, key, now, defaultTtl)
        result == IF ~r.hit THEN TRUE
                  ELSE TruthyStr(r.entry.etag) \/ TruthyStr(r.entry.lastModified)
    IN  /\ cache' = r.map
        /\ insertOrder' = OrderAfter(insertOrder, MapKeys(cache) \ MapKeys(r.map), {})
        /\ lastOp' = [NoOp EXCEPT !.op = "shouldRefresh", !.key = key, !.hit = result,
                                  !.entry = r.entry]
        /\ UNCHANGED <<now, defaultTtl, maxSize, notCacheVars>>

AddConditionalHeaders(config) ==
    LET key == createCacheKey(config)
        r == CacheLookup(cache, key, now, defaultTtl)
        h0 == [config.headers EXCEPT !.defined = TRUE]
        h1 == IF TruthyStr(r.entry.etag)
              THEN [h0 EXCEPT !.ifNoneMatch = r.entry.etag] ELSE h0
        h2 == IF TruthyStr(r.entry.lastModified)
              THEN [h1 EXCEPT !.ifModifiedSince = r.entry.lastModified] ELSE h1
    IN  /\ cache' = r.map
        /\ insertOrder' = OrderAfter(insertOrder, MapKeys(cache) \ MapKeys(r.map), {})
        /\ lastOp' = [NoOp EXCEPT !.op = "addConditionalHeaders", !.key = key,
                                  !.hit = r.hit, !.entry = r.entry,
                                  !.headers = IF r.hit THEN h2 ELSE config.headers]
        /\ UNCHANGED <<now, defaultTtl, maxSize, notCacheVars>>

Clear ==
    /\ cache' = EmptyMap
    /\ insertOrder' = <<>>
    /\ lastOp' = [NoOp EXCEPT !.op = "clear"]
    /\ UNCHANGED <<now, defaultTtl, maxSize, notCacheVars>>

Tick ==
    /\ now < MaxTime
    /\ now' = now + 1
    /\ lastOp' = [NoOp EXCEPT !.op = "tick"]
    /\ UNCHANGED <<cache, defaultTtl, maxSize, insertOrder, notCacheVars>>

CacheNextOf(configs, responses, ttls) ==
    \/ \E c \in configs : Get(c)
    \/ \E c \in configs, r \in responses, t \in ttls : Set(c, r, t)
    \/ \E c \in configs : ShouldRefresh(c)
    \/ \E c \in configs : AddConditionalHeaders(c)
    \/ Clear
    \/ Tick

(***************************************************************************)
(* RequestBatcher                                                          *)
(***************************************************************************)
\* the request descriptors handed to the batcher; a url is kept as its
\* pieces, "?" separating the path from the query
BatchConfigs ==
    { [method |-> NoString, url |-> <<"/a">>],
      [method |-> "get",    url |-> <<"/a", "?", "x=1">>],
      [method |-> "post",   url |-> <<"/a">>] }

\* one request descriptor for each of two groups
TwoGroupConfigs ==
    { [method |-> NoString, url |-> <<"/a", "?", "x=1">>],
      [method |-> "post",   url |-> <<"/a">>] }

\* the request descriptor of the liveness scenarios: one group
OneGroupConfigs == { [method |-> NoString, url |-> <<"/a", "?", "x=1">>] }

\* the executor functions callers pass to add
Executors == {"execA", "execB"}
\* what an executor may throw or reject with, and the values it may return
Errors == {"err1"}
TypeError == <<"error", "TypeError">>
\* the value of a missing list element or property
UndefinedValue == <<"undefined">>
\* the i-th value an executor returns; the batcher does not look into it
ResultValue(i) == <<"result", i>>
\* the lists an executor may resolve with for n requests: their lengths are
\* n + d for the d of lens, -1 (one element short) to 1 (one element long)
ResultLists(n, lens) == {[i \in 1..(n + d) |-> ResultValue(i)] : d \in lens}
\* history: how an executor invocation ended
Outcome(kind, error, results) == [kind |-> kind, error |-> error, results |-> results]
\* how the call of an executor ends: it returns a promise, or throws
SyncOutcomes == {[throws |-> FALSE, error |-> <<>>]}
                    \cup {[throws |-> TRUE, error |-> <<"error", e>>] : e \in Errors}

\* url.split('?')[0]
RECURSIVE SplitFirst(_)
SplitFirst(url) ==
    IF url = <<>> \/ Head(url) = "?" THEN <<>>
    ELSE <<Head(url)>> \o SplitFirst(Tail(url))

getBatchKeyWithQuery(config) ==
    LET method == IF TruthyStr(config.method) THEN ToUpperCase(config.method) ELSE "GET"
    IN  <<method, ":">> \o config.url
getBatchKey(config) ==
    LET method == IF TruthyStr(config.method) THEN ToUpperCase(config.method) ELSE "GET"
    IN  <<method, ":">> \o SplitFirst(config.url)

\* the batcher and its promises as one value
BatchState ==
    [batches |-> batches, timers |-> timers, reqs |-> reqs, inflight |-> inflight,
     calls |-> calls, lastSettled |-> lastSettled]

BatchBecomes(st) ==
    /\ batches' = st.batches
    /\ timers' = st.timers
    /\ reqs' = st.reqs
    /\ inflight' = st.inflight
    /\ calls' = st.calls
    /\ lastSettled' = st.lastSettled

\* this.batches.delete(batchKey)
BatchesKeep(bs, key) == bs
BatchesDelete(bs, key) == [k \in DOMAIN bs \ {key} |-> bs[k]]
\* this.batches.set(batchKey, batch)
BatchesSet(bs, key, batch) == [k \in DOMAIN bs \cup {key} |-> IF k = key THEN batch ELSE bs[k]]

\* setTimeout(callback, delay) at time t: fires at t + delay or later
TimerDeadlineNow(t, delay) == t
TimerDeadline(t, delay) == t + delay
\* clearTimeout(id)
KeepTimeout(tms, id) == tms
ClearTimeout(tms, id) == {tm \in tms : tm.id # id}

\* req.resolve(value) or req.reject(error): the first call settles the promise
Settle(st, r, kind, value) ==
    [st EXCEPT !.reqs[r] = IF @.state = "pending"
                           THEN [@ EXCEPT !.state = kind, !.value = value,
                                          !.settles = @ + 1]
                           ELSE [@ EXCEPT !.settles = @ + 1],
               !.lastSettled = Append(@, [req |-> r, kind |-> kind, value |-> value])]

\* results[index], index counted from 1 here
ResultAtNext(results, index) ==
    IF index + 1 <= Len(results) THEN results[index + 1] ELSE UndefinedValue
ResultAt(results, index) ==
    IF index <= Len(results) THEN results[index] ELSE UndefinedValue

\* batch.requests.forEach((req, index) => req.resolve(results[index]))
RECURSIVE ResolveFrom(_, _, _, _)
ResolveFrom(st, rs, results, index) ==
    IF index > Len(rs) THEN st
    ELSE ResolveFrom(Settle(st, rs[index], "resolved", ResultAt(results, index)),
                     rs, results, index + 1)
ResolveListed(st, rs, results) ==
    ResolveFrom([st EXCEPT !.lastSettled = <<>>],
                SubSeq(rs, 1, IF Len(results) < Len(rs) THEN Len(results) ELSE Len(rs)),
                results, 1)
ResolveAll(st, rs, results) ==
    ResolveFrom([st EXCEPT !.lastSettled = <<>>], rs, results, 1)

\* batch.requests.forEach(req => req.reject(error))
RECURSIVE RejectFrom(_, _, _, _)
RejectFrom(st, rs, error, index) ==
    IF index > Len(rs) THEN st
    ELSE RejectFrom(Settle(st, rs[index], "rejected", error), rs, error, index + 1)
RejectFirst(st, rs, error) ==
    RejectFrom([st EXCEPT !.lastSettled = <<>>], SubSeq(rs, 1, 1), error, 1)
RejectAll(st, rs, error) ==
    RejectFrom([st EXCEPT !.lastSettled = <<>>], rs, error, 1)

\* executeBatch up to its await: remove the group, call the executor
ExecuteBatch(st, key, executor, sync, by) ==
    IF key \notin DOMAIN st.batches THEN st
    ELSE LET batch == st.batches[key]
             call == [requests |-> batch.requests,
                      configs |-> [i \in 1..Len(batch.requests) |->
                                       st.reqs[batch.requests[i]].config],
                      executor |-> executor, by |-> by,
                      group |-> batch.timeout,
                      outcome |-> IF sync.throws THEN Outcome("threw", sync.error, <<>>)
                                  ELSE Outcome("pending", <<>>, <<>>)]
             st1 == [st EXCEPT !.batches = BatchesDelete(@, key),
                               !.calls = Append(@, call)]
         IN  IF sync.throws
             THEN RejectAll(st1, batch.requests, sync.error)
             ELSE [st1 EXCEPT !.inflight =
                       @ \cup {[call |-> Len(st1.calls), requests |-> batch.requests]}]

\* new RequestBatcher(batchWindowMs, maxBatchSize), maxBatchSize out of sizes
BatchInitOf(sizes) ==
    /\ batches = <<>>
    /\ batchWindow \in 1..MaxBatchWindow
    /\ maxBatchSize \in sizes
    /\ timers = {}
    /\ reqs = <<>>
    /\ inflight = {}
    /\ timerSeq = 0
    /\ calls = <<>>
    /\ lastSettled = <<>>
BatchInit == BatchInitOf(1..MaxBatchSize)

\* add(config, executor); sync is how the executor call ends if this add flushes
Add(config, executor, sync) ==
    /\ Len(reqs) < MaxRequests
    /\ now + batchWindow <= MaxTime
    /\ LET r == Len(reqs) + 1
           batchKey == getBatchKey(config)
           isNew == batchKey \notin DOMAIN batches
           id == IF isNew THEN timerSeq + 1 ELSE batches[batchKey].timeout
           timers1 == IF isNew
                      THEN timers \cup {[id |-> id, key |-> batchKey, executor |-> executor,
                                         deadline |-> TimerDeadline(now, batchWindow)]}
                      ELSE timers
           batch0 == IF isNew THEN [requests |-> <<>>, timeout |-> id, createdAt |-> now]
                     ELSE batches[batchKey]
           batch == [batch0 EXCEPT !.requests = Append(@, r)]
           st1 == [BatchState EXCEPT
                      !.batches = BatchesSet(@, batchKey, batch),
                      !.timers = timers1,
                      !.reqs = Append(@, [config |-> config, executor |-> executor,
                                          state |-> "pending", value |-> UndefinedValue,
                                          settles |-> 0, group |-> id])]
       IN  /\ timerSeq' = IF isNew THEN timerSeq + 1 ELSE timerSeq
           /\ IF Len(batch.requests) >= maxBatchSize
              THEN BatchBecomes(ExecuteBatch(
                       [st1 EXCEPT !.timers = ClearTimeout(@, batch.timeout)],
                       batchKey, executor, sync, "size"))
              ELSE BatchBecomes(st1)
    /\ UNCHANGED <<now, batchWindow, maxBatchSize, notBatchVars>>

\* the callback of an armed timer runs
TimerFiresForLast(tm, sync) ==
    /\ tm \in timers
    /\ now >= tm.deadline
    /\ LET executor == IF tm.key \in DOMAIN batches
                       THEN reqs[batches[tm.key].requests[Len(batches[tm.key].requests)]].executor
                       ELSE tm.executor
       IN  BatchBecomes(ExecuteBatch([BatchState EXCEPT !.timers = @ \ {tm}],
                                     tm.key, executor, sync, "timer"))
    /\ UNCHANGED <<now, batchWindow, maxBatchSize, timerSeq, notBatchVars>>
TimerFires(tm, sync) ==
    /\ tm \in timers
    /\ now >= tm.deadline
    /\ BatchBecomes(ExecuteBatch([BatchState EXCEPT !.timers = @ \ {tm}],
                                 tm.key, tm.executor, sync, "timer"))
    /\ UNCHANGED <<now, batchWindow, maxBatchSize, timerSeq, notBatchVars>>

\* the awaited executor promise fulfils with a list
ExecutorResolves(inv, results) ==
    /\ inv \in inflight
    /\ BatchBecomes(ResolveAll(
           [BatchState EXCEPT !.inflight = @ \ {inv},
                              !.calls[inv.call].outcome = Outcome("resolved", <<>>, results)],
           inv.requests, results))
    /\ UNCHANGED <<now, batchWindow, maxBatchSize, timerSeq, notBatchVars>>

\* the awaited executor promise fulfils with undefined: results[0] throws
ExecutorResolvesUndefined(inv) ==
    /\ inv \in inflight
    /\ BatchBecomes(RejectAll(
           [BatchState EXCEPT !.inflight = @ \ {inv},
                              !.calls[inv.call].outcome = Outcome("undefined", <<>>, <<>>)],
           inv.requests, TypeError))
    /\ UNCHANGED <<now, batchWindow, maxBatchSize, timerSeq, notBatchVars>>

\* the awaited executor promise rejects
ExecutorRejects(inv, error) ==
    /\ inv \in inflight
    /\ BatchBecomes(RejectAll(
           [BatchState EXCEPT !.inflight = @ \ {inv},
                              !.calls[inv.call].outcome = Outcome("rejected", error, <<>>)],
           inv.requests, error))
    /\ UNCHANGED <<now, batchWindow, maxBatchSize, timerSeq, notBatchVars>>

\* time passes, as long as a timer is armed or add may still be called
BatchTick ==
    /\ now < MaxTime
    /\ timers # {} \/ Len(reqs) < MaxRequests
    /\ now' = now + 1
    /\ UNCHANGED <<batchVars, notBatchVars>>

TimerStep == \E tm \in timers, sync \in SyncOutcomes : TimerFires(tm, sync)
ExecutorSettlesOf(lens) ==
    \E inv \in inflight :
        \/ \E results \in ResultLists(Len(inv.requests), lens) :
               ExecutorResolves(inv, results)
        \/ \E e \in Errors : ExecutorRejects(inv, <<"error", e>>)
ExecutorReturnsUndefined == \E inv \in inflight : ExecutorResolvesUndefined(inv)

BatchNextOf(configs, executors, lens) ==
    \/ \E c \in configs, e \in executors, sync \in SyncOutcomes : Add(c, e, sync)
    \/ TimerStep
    \/ ExecutorSettlesOf(lens)
    \/ BatchTick

(***************************************************************************)
(* AuthRateLimiter                                                         *)
(***************************************************************************)
\* the identifiers whose authentication attempts are limited
Identifiers == {"id1", "id2"}

\* this.attempts.set(identifier, record)
AttemptsSet(m, id, record) == [k \in DOMAIN m \cup {id} |-> IF k = id THEN record ELSE m[k]]

\* now - record.firstAttempt > this.windowMs
WindowNeverExpired(record, t, window) == FALSE
WindowExpired(record, t, window) == t - record.firstAttempt > window

\* { count: 1, firstAttempt: now }
FirstAttempt(t) == [count |-> 1, firstAttempt |-> t]

\* record.count >= this.maxAttempts
LimitExceededStrict(record, max) == record.count > max
LimitExceeded(record, max) == record.count >= max

\* record.count++
CountNothing(record) == record
CountAttempt(record) == [record EXCEPT !.count = @ + 1]

\* isAllowed: what it returns, and the Map afterwards
IsAllowedCounting(m, id, t, max, window) ==
    IF id \notin DOMAIN m
    THEN [allowed |-> TRUE, attempts |-> AttemptsSet(m, id, FirstAttempt(t))]
    ELSE IF WindowExpired(m[id], t, window)
    THEN [allowed |-> TRUE, attempts |-> AttemptsSet(m, id, FirstAttempt(t))]
    ELSE IF LimitExceeded(m[id], max)
    THEN [allowed |-> FALSE, attempts |-> AttemptsSet(m, id, CountAttempt(m[id]))]
    ELSE [allowed |-> TRUE, attempts |-> AttemptsSet(m, id, CountAttempt(m[id]))]
IsAllowed(m, id, t, max, window) ==
    IF id \notin DOMAIN m
    THEN [allowed |-> TRUE, attempts |-> AttemptsSet(m, id, FirstAttempt(t))]
    ELSE IF WindowExpired(m[id], t, window)
    THEN [allowed |-> TRUE, attempts |-> AttemptsSet(m, id, FirstAttempt(t))]
    ELSE IF LimitExceeded(m[id], max)
    THEN [allowed |-> FALSE, attempts |-> m]
    ELSE [allowed |-> TRUE, attempts |-> AttemptsSet(m, id, CountAttempt(m[id]))]

LimiterInit ==
    /\ attempts = <<>>
    /\ maxAttempts \in 1..MaxAttempts
    /\ windowMs \in 1..MaxWindowMs
    /\ attemptLog = <<>>

\* a call of isAllowed(identifier)
IsAllowedCall(id) ==
    /\ Len(attemptLog) < MaxAttemptCalls
    /\ LET r == IsAllowed(attempts, id, now, maxAttempts, windowMs)
       IN  /\ attempts' = r.attempts
           /\ attemptLog' = Append(attemptLog, [id |-> id, at |-> now, allowed |-> r.allowed])
    /\ UNCHANGED <<now, maxAttempts, windowMs, notLimiterVars>>

\* time passes, as long as isAllowed may still be called
LimiterTick ==
    /\ now < MaxTime
    /\ Len(attemptLog) < MaxAttemptCalls
    /\ now' = now + 1
    /\ UNCHANGED <<limiterVars, notLimiterVars>>

LimiterNext ==
    \/ \E id \in Identifiers : IsAllowedCall(id)
    \/ LimiterTick

(***************************************************************************)
(* SecureTokenCache                                                        *)
(***************************************************************************)
\* the logical keys and the tokens cached under them
TokenKeys == {"k1", "k2"}
Tokens == {"tok1", "tok2"}
\* get returns null
NullToken == "null"

\* crypto.createHash('sha256').update(value).digest('hex').substring(0, 16)
Hash(value) == <<"sha256", value, 16>>

\* Date.now() + (ttlMs || this.defaultTtl)
Expires(t, ttlMs, dflt) == t + (IF TruthyNum(ttlMs) THEN ttlMs.val ELSE dflt)

\* Date.now() > entry.expires
TokenExpiredAt(entry, t) == t >= entry.expires
TokenExpired(entry, t) == t > entry.expires

\* this.cache.set(key, entry) and this.cache.delete(key)
TokensSet(m, key, entry) == [k \in DOMAIN m \cup {key} |-> IF k = key THEN entry ELSE m[k]]
TokensDelete(m, key) == [k \in DOMAIN m \ {key} |-> m[k]]

\* get: the token returned or null, and the Map afterwards
TokenLookup(m, key, t) ==
    IF key \notin DOMAIN m THEN [token |-> NullToken, map |-> m]
    ELSE IF TokenExpired(m[key], t) THEN [token |-> NullToken, map |-> TokensDelete(m, key)]
    ELSE [token |-> m[key].token, map |-> m]

NoTokenOp == [op |-> "none", key |-> NoString, token |-> NullToken]

TokenInit ==
    /\ tokenCache = <<>>
    /\ tokenDefaultTtl \in {0, MaxTokenTtl}
    /\ tokenSets = <<>>
    /\ lastToken = NoTokenOp

TokenSet(key, token, ttlMs) ==
    LET entry == [token |-> token, expires |-> Expires(now, ttlMs, tokenDefaultTtl),
                  hash |-> Hash(token)]
    IN  /\ tokenCache' = TokensSet(tokenCache, key, entry)
        /\ tokenSets' = TokensSet(tokenSets, key,
                                  [token |-> token, expires |-> entry.expires, stands |-> TRUE])
        /\ lastToken' = [op |-> "set", key |-> key, token |-> token, ttlMs |-> ttlMs]
        /\ UNCHANGED <<now, tokenDefaultTtl, notTokenVars>>

TokenGet(key) ==
    LET r == TokenLookup(tokenCache, key, now)
    IN  /\ tokenCache' = r.map
        /\ lastToken' = [op |-> "get", key |-> key, token |-> r.token]
        /\ UNCHANGED <<now, tokenDefaultTtl, tokenSets, notTokenVars>>

TokenInvalidate(key) ==
    /\ tokenCache' = TokensDelete(tokenCache, key)
    /\ tokenSets' = [k \in DOMAIN tokenSets |->
                        IF k = key THEN [tokenSets[k] EXCEPT !.stands = FALSE] ELSE tokenSets[k]]
    /\ lastToken' = [op |-> "invalidate", key |-> key, token |-> NullToken]
    /\ UNCHANGED <<now, tokenDefaultTtl, notTokenVars>>

TokenClear ==
    /\ tokenCache' = <<>>
    /\ tokenSets' = [k \in DOMAIN tokenSets |-> [tokenSets[k] EXCEPT !.stands = FALSE]]
    /\ lastToken' = [op |-> "clear", key |-> NoString, token |-> NullToken]
    /\ UNCHANGED <<now, tokenDefaultTtl, notTokenVars>>

TokenTick ==
    /\ now < MaxTime
    /\ now' = now + 1
    /\ lastToken' = [op |-> "tick", key |-> NoString, token |-> NullToken]
    /\ UNCHANGED <<tokenCache, tokenDefaultTtl, tokenSets, notTokenVars>>

TokenNext ==
    \/ \E k \in TokenKeys, tok \in Tokens, t \in TtlArgs : TokenSet(k, tok, t)
    \/ \E k \in TokenKeys : TokenGet(k)
    \/ \E k \in TokenKeys : TokenInvalidate(k)
    \/ TokenClear
    \/ TokenTick

(***************************************************************************)
(* RequestMetrics and HealthMonitor: recordRequest                         *)
(***************************************************************************)
\* the response times passed to recordRequest
Latencies == {1, MaxLatency}

\* a quotient of two numbers, kept as the fraction in lowest terms
RECURSIVE GCD(_, _)
GCD(a, b) == IF b = 0 THEN a ELSE GCD(b, a % b)
Quotient(a, b) == LET g == GCD(a, b) IN [num |-> a \div g, den |-> b \div g]
Zero == [num |-> 0, den |-> 1]

\* null, where the program keeps a number or null, and a string or null
Null == [has |-> FALSE, val |-> 0]
NullString == "null"
\* no getHealthStatus since the last record call
NoStatus == [op |-> "none"]

\* times.reduce((sum, time) => sum + time, 0): the sum of the elements,
\* added up by halves to keep the evaluation shallow
RECURSIVE SumBetween(_, _, _)
SumBetween(times, lo, hi) ==
    IF lo > hi THEN 0
    ELSE IF lo = hi THEN times[lo]
    ELSE LET mid == (lo + hi) \div 2
         IN  SumBetween(times, lo, mid) + SumBetween(times, mid + 1, hi)
Sum(times) == SumBetween(times, 1, Len(times))

\* responseTimes.push(t); if (responseTimes.length > 1000) responseTimes.shift()
PushKeepAll(times, t) == Append(times, t)
PushShift(times, t) ==
    LET pushed == Append(times, t)
    IN  IF Len(pushed) > MaxResponseTimes THEN Tail(pushed) ELSE pushed

\* responseTimes.reduce(...) / responseTimes.length
Average(times) == Quotient(Sum(times), Len(times))

\* the two monitors after n requests that succeeded in time 1, none of them
\* a cache hit
MetricsAfter(n) ==
    [totalRequests |-> n, successfulRequests |-> n, failedRequests |-> 0,
     cacheHits |-> 0, cacheMisses |-> n,
     averageResponseTime |-> IF n = 0 THEN Zero ELSE Quotient(n, n),
     responseTimes |-> [i \in 1..n |-> 1]]
\* a monitor constructed at time 1 that has then recorded requests taking
\* time t each, succeeded of them successful and failed of them failed
HealthAfterOf(succeeded, failed, t) ==
    LET n == succeeded + failed
    IN  [startTime |-> 1,
         requests |-> [total |-> n, successful |-> succeeded, failed |-> failed,
                       avgResponseTime |-> IF n = 0 THEN Zero ELSE Quotient(n * t, n)],
         auth |-> [successful |-> 0, failed |-> 0, rateLimited |-> 0],
         cache |-> [hits |-> 0, misses |-> 0],
         errors |-> [count |-> 0, lastError |-> NullString, lastErrorTime |-> Null],
         responseTimes |-> [i \in 1..n |-> t]]
HealthAfter(n) == HealthAfterOf(n, 0, 1)

\* the monitors are new, or have recorded MaxResponseTimes - 1 requests
MetricsInit ==
    \E n \in {0, MaxResponseTimes - 1} :
        /\ metrics = MetricsAfter(n)
        /\ health = HealthAfter(n)
        /\ recorded = [metrics |-> [i \in 1..n |-> 1], health |-> [i \in 1..n |-> 1],
                       calls |-> 0, errors |-> <<>>]
        /\ lastStatus = NoStatus

\* RequestMetrics.recordRequest(success, responseTimeMs, cacheHit)
RecordRequest(success, responseTimeMs, cacheHit) ==
    /\ recorded.calls < MaxRecords
    /\ LET times == PushShift(metrics.responseTimes, responseTimeMs)
       IN  metrics' =
               [totalRequests |-> metrics.totalRequests + 1,
                successfulRequests |-> metrics.successfulRequests + (IF success THEN 1 ELSE 0),
                failedRequests |-> metrics.failedRequests + (IF success THEN 0 ELSE 1),
                cacheHits |-> metrics.cacheHits + (IF cacheHit THEN 1 ELSE 0),
                cacheMisses |-> metrics.cacheMisses + (IF cacheHit THEN 0 ELSE 1),
                averageResponseTime |-> Average(times),
                responseTimes |-> times]
    /\ recorded' = [recorded EXCEPT !.metrics = Append(@, responseTimeMs), !.calls = @ + 1]
    /\ UNCHANGED <<now, health, lastStatus, notMetricsVars>>

\* HealthMonitor.recordRequest(success, responseTime)
HealthRecordRequest(success, responseTime) ==
    /\ recorded.calls < MaxRecords
    /\ LET times == PushShift(health.responseTimes, responseTime)
       IN  health' =
               [health EXCEPT
                    !.requests =
                        [total |-> @.total + 1,
                         successful |-> @.successful + (IF success THEN 1 ELSE 0),
                         failed |-> @.failed + (IF success THEN 0 ELSE 1),
                         avgResponseTime |-> Average(times)],
                    !.responseTimes = times]
    /\ recorded' = [recorded EXCEPT !.health = Append(@, responseTime), !.calls = @ + 1]
    /\ lastStatus' = NoStatus
    /\ UNCHANGED <<now, metrics, notMetricsVars>>

MetricsNext ==
    \/ \E success \in BOOLEAN, t \in Latencies, hit \in BOOLEAN : RecordRequest(success, t, hit)
    \/ \E success \in BOOLEAN, t \in Latencies : HealthRecordRequest(success, t)

(***************************************************************************)
(* HealthMonitor: recordAuth, recordCacheHit, recordError, getHealthStatus *)
(***************************************************************************)
\* the events passed to recordAuth, the messages of the errors passed to
\* recordError, the response times passed to recordRequest
AuthEvents == {"success", "failure", "ratelimited"}
ErrorMessages == {"timeout"}
HealthLatencies == {200, MaxAvgResponseTime}

\* HealthMonitor.recordAuth(event)
RecordAuth(event) ==
    /\ recorded.calls < MaxRecords
    /\ health' =
           CASE event = "success" -> [health EXCEPT !.auth.successful = @ + 1]
             [] event = "failure" -> [health EXCEPT !.auth.failed = @ + 1]
             [] event = "ratelimited" -> [health EXCEPT !.auth.rateLimited = @ + 1]
    /\ recorded' = [recorded EXCEPT !.calls = @ + 1]
    /\ lastStatus' = NoStatus
    /\ UNCHANGED <<now, metrics, notMetricsVars>>

\* HealthMonitor.recordCacheHit(hit)
RecordCacheHit(hit) ==
    /\ recorded.calls < MaxRecords
    /\ health' = IF hit THEN [health EXCEPT !.cache.hits = @ + 1]
                 ELSE [health EXCEPT !.cache.misses = @ + 1]
    /\ recorded' = [recorded EXCEPT !.calls = @ + 1]
    /\ lastStatus' = NoStatus
    /\ UNCHANGED <<now, metrics, notMetricsVars>>

\* HealthMonitor.recordError(error)
RecordError(message) ==
    /\ recorded.calls < MaxRecords
    /\ health' = [health EXCEPT !.errors = [count |-> @.count + 1, lastError |-> message,
                                            lastErrorTime |-> Num(now)]]
    /\ recorded' = [recorded EXCEPT !.calls = @ + 1, !.errors = Append(@, now)]
    /\ lastStatus' = NoStatus
    /\ UNCHANGED <<now, metrics, notMetricsVars>>

\* a quotient against a whole number
AtLeast(q, n) == q.num >= n * q.den
Below(q, n) == q.num < n * q.den

\* requests.total > 0 ? (requests.successful / requests.total) * 100 : 100
SuccessRate(h) ==
    IF h.requests.total > 0 THEN Quotient(h.requests.successful * 100, h.requests.total)
    ELSE Quotient(100, 1)

\* !errors.lastErrorTime || (Date.now() - errors.lastErrorTime) > 5 * 60 * 1000
NoRecentErrorsSince(h, t) ==
    ~TruthyNum(h.errors.lastErrorTime) \/ (t - h.errors.lastErrorTime.val) >= RecentErrorMs
NoRecentErrorsByUptime(h, t) == (t - h.startTime) > RecentErrorMs
NoRecentErrors(h, t) ==
    ~TruthyNum(h.errors.lastErrorTime) \/ (t - h.errors.lastErrorTime.val) > RecentErrorMs

\* auth.failed < auth.successful * 0.1, in tenths
AuthWorking(h) == 10 * h.auth.failed < h.auth.successful

\* the four checks of getHealthStatus at time t
Checks(h, t) ==
    [highSuccessRate |-> AtLeast(SuccessRate(h), MinSuccessRate),
     noRecentErrors |-> NoRecentErrors(h, t),
     reasonableResponseTime |-> Below(h.requests.avgResponseTime, MaxAvgResponseTime),
     authWorking |-> AuthWorking(h)]

\* Object.values(checks).filter(Boolean).length and Object.keys(checks).length
HealthyChecks(checks) == Cardinality({c \in DOMAIN checks : checks[c]})
TotalChecks(checks) == Cardinality(DOMAIN checks)

\* healthy when all checks hold, degraded when healthyChecks >= totalChecks * 0.7
StatusByMajority(healthyChecks, totalChecks) ==
    IF healthyChecks = totalChecks THEN "healthy"
    ELSE IF 2 * healthyChecks >= totalChecks THEN "degraded"
    ELSE "unhealthy"
StatusOf(healthyChecks, totalChecks) ==
    IF healthyChecks = totalChecks THEN "healthy"
    ELSE IF 10 * healthyChecks >= 7 * totalChecks THEN "degraded"
    ELSE "unhealthy"

\* what getHealthStatus returns at time t: the status, the uptime and the
\* checks (the copy of the metrics it returns with them is left out)
HealthStatus(h, t) ==
    LET checks == Checks(h, t)
    IN  [status |-> StatusOf(HealthyChecks(checks), TotalChecks(checks)),
         uptime |-> t - h.startTime,
         checks |-> checks]

\* HealthMonitor.getHealthStatus()
GetHealthStatusExpiring ==
    /\ lastStatus' = [op |-> "getHealthStatus", at |-> now, report |-> HealthStatus(health, now)]
    /\ health' = IF NoRecentErrors(health, now)
                 THEN [health EXCEPT !.errors.lastError = NullString, !.errors.lastErrorTime = Null]
                 ELSE health
    /\ UNCHANGED <<now, metrics, recorded, notMetricsVars>>
GetHealthStatus ==
    /\ lastStatus' = [op |-> "getHealthStatus", at |-> now, report |-> HealthStatus(health, now)]
    /\ UNCHANGED <<now, metrics, health, recorded, notMetricsVars>>

\* the clock advances by a millisecond or by five minutes, MaxTime times
TicksOf(t) == ((t - 1) % RecentErrorMs) + ((t - 1) \div RecentErrorMs)
HealthTick(d) ==
    /\ TicksOf(now) < MaxTime
    /\ now' = now + d
    /\ UNCHANGED <<metricsVars, notMetricsVars>>

\* the monitor is new, or has recorded 100 requests of 200 ms, 96 of them
\* successful; the clock reads a time after the epoch
HealthInit ==
    /\ now = 1
    /\ metrics = MetricsAfter(0)
    /\ \E warm \in BOOLEAN :
           /\ health = IF warm THEN HealthAfterOf(96, 4, 200) ELSE HealthAfterOf(0, 0, 200)
           /\ recorded = [metrics |-> <<>>, health |-> health.responseTimes,
                          calls |-> 0, errors |-> <<>>]
    /\ lastStatus = NoStatus

\* a record call of the health monitor
HealthRecord ==
    \/ \E success \in BOOLEAN, t \in HealthLatencies : HealthRecordRequest(success, t)
    \/ \E event \in AuthEvents : RecordAuth(event)
    \/ \E hit \in BOOLEAN : RecordCacheHit(hit)
    \/ \E message \in ErrorMessages : RecordError(message)

\* at most MaxHealthEvents record calls are followed
HealthNext ==
    \/ recorded.calls < MaxHealthEvents /\ HealthRecord
    \/ GetHealthStatus
    \/ \E d \in {1, RecentErrorMs} : HealthTick(d)

(***************************************************************************)
(* Strings: a string is the sequence of its characters                     *)
(***************************************************************************)
\* an optional string: undefined or null, or a string
NoStr == [has |-> FALSE, val |-> <<>>]
Str(s) == [has |-> TRUE, val |-> s]
\* the truthiness of an optional string: '' is falsy
TruthyText(o) == o.has /\ o.val # <<>>

\* Math.min(a, b)
Min(a, b) == IF a < b THEN a ELSE b

\* the characters \s and trim() take for white space
IsSpace(c) == c \in {" ", "\t"}

\* String.prototype.trim()
RECURSIVE TrimStart(_)
TrimStart(s) == IF s # <<>> /\ IsSpace(Head(s)) THEN TrimStart(Tail(s)) ELSE s
RECURSIVE TrimEnd(_)
TrimEnd(s) ==
    IF s # <<>> /\ IsSpace(s[Len(s)]) THEN TrimEnd(SubSeq(s, 1, Len(s) - 1)) ELSE s
Trim(s) == TrimEnd(TrimStart(s))

\* String.prototype.toLowerCase(), on the letters A to Z
UpperLetters ==
    <<"A", "B", "C", "D", "E", "F", "G", "H", "I", "J", "K", "L", "M",
      "N", "O", "P", "Q", "R", "S", "T", "U", "V", "W", "X", "Y", "Z">>
LowerLetters ==
    <<"a", "b", "c", "d", "e", "f", "g", "h", "i", "j", "k", "l", "m",
      "n", "o", "p", "q", "r", "s", "t", "u", "v", "w", "x", "y", "z">>
LowerChar(c) ==
    IF \E i \in DOMAIN UpperLetters : UpperLetters[i] = c
    THEN LowerLetters[CHOOSE i \in DOMAIN UpperLetters : UpperLetters[i] = c]
    ELSE c
ToLowerCase(s) == [i \in 1..Len(s) |-> LowerChar(s[i])]

\* String.prototype.startsWith(w)
StartsWith(s, w) == Len(s) >= Len(w) /\ SubSeq(s, 1, Len(w)) = w
\* /^w/i.test(s), for a word w of lower-case letters and digits
StartsWithIgnoringCase(s, w) == StartsWith(ToLowerCase(s), w)

\* String.prototype.substring(from) and substring(from, to), counted from 0
SubstringFrom(s, from) == SubSeq(s, from + 1, Len(s))
Substring(s, from, to) == SubSeq(s, from + 1, Min(to, Len(s)))
\* String.prototype.repeat(n)
Repeat(c, n) == [i \in 1..n |-> c]

\* the words the program looks for and writes
LowerBearer == <<"b", "e", "a", "r", "e", "r">>
BearerSpace == <<"B", "e", "a", "r", "e", "r", " ">>
EmptyMarker == <<"[", "E", "M", "P", "T", "Y", "]">>
RedactedMarker == <<"[", "R", "E", "D", "A", "C", "T", "E", "D", "]">>

(***************************************************************************)
(* security.ts: validateTokenSecurity and maskToken                        *)
(***************************************************************************)
\* token.replace(/^Bearer\s+/i, ''): the word and the white space after it
\* go when the token starts with them
ReplaceBearer(token) ==
    IF StartsWithIgnoringCase(token, LowerBearer) /\ Len(token) > 6 /\ IsSpace(token[7])
    THEN TrimStart(SubstringFrom(token, 6))
    ELSE token

\* token.replace(/^Bearer\s+/i, '').trim()
CleanToken(token) == Trim(ReplaceBearer(token))

\* the three insecurePatterns: the words each of them starts with
InsecurePatterns ==
    << {<<"t", "e", "s", "t">>, <<"d", "e", "m", "o">>,
        <<"e", "x", "a", "m", "p", "l", "e">>, <<"s", "a", "m", "p", "l", "e">>},
       {<<"a", "d", "m", "i", "n">>, <<"u", "s", "e", "r">>,
        <<"d", "e", "f", "a", "u", "l", "t">>},
       {<<"1", "2", "3">>, <<"a", "b", "c">>,
        <<"p", "a", "s", "s", "w", "o", "r", "d">>} >>
\* pattern.test(cleanToken)
PatternTest(words, cleanToken) == \E w \in words : StartsWithIgnoringCase(cleanToken, w)

\* new Set(cleanToken.toLowerCase()).size
UniqueChars(cleanToken) == Cardinality({LowerChar(cleanToken[i]) : i \in 1..Len(cleanToken)})

\* validateTokenSecurity(token)
ValidateTokenSecurityStrict(token) ==
    LET cleanToken == CleanToken(token)
        weak == \/ Len(cleanToken) < MinTokenLength
                \/ UniqueChars(cleanToken) < MinUniqueChars
    IN  [isValid |-> ~weak,
         errors |-> IF weak THEN <<"Token appears too short to be secure">> ELSE <<>>,
         warnings |-> <<>>]
ValidateTokenSecurity(token) ==
    LET cleanToken == CleanToken(token)
        short == Len(cleanToken) < MinTokenLength
    IN  [isValid |-> ~short,
         errors |-> IF short THEN <<"Token appears too short to be secure">> ELSE <<>>,
         warnings |->
             (IF \E i \in DOMAIN InsecurePatterns : PatternTest(InsecurePatterns[i], cleanToken)
              THEN <<"Token appears to use a common test pattern">> ELSE <<>>)
             \o (IF UniqueChars(cleanToken) < MinUniqueChars
                 THEN <<"Token has low character diversity">> ELSE <<>>)]

\* maskToken(token)
MaskTokenWhole(token) ==
    LET cleanToken == CleanToken(token)
    IN  IF token = <<>> THEN EmptyMarker
        ELSE IF Len(cleanToken) <= 8 THEN RedactedMarker
        ELSE Substring(cleanToken, 0, 4) \o Repeat("*", Len(cleanToken) - 8)
                 \o SubstringFrom(cleanToken, Len(cleanToken) - 4)
MaskToken(token) ==
    LET cleanToken == CleanToken(token)
    IN  IF token = <<>> THEN EmptyMarker
        ELSE IF Len(cleanToken) <= 8 THEN RedactedMarker
        ELSE Substring(cleanToken, 0, 4) \o Repeat("*", Min(12, Len(cleanToken) - 8))
                 \o SubstringFrom(cleanToken, Len(cleanToken) - 4)

\* the tokens passed to the two functions: a prefix, then len characters
\* out of distinct different ones, then a suffix
BodyChars == <<"q", "w", "z", "x", "v", "k", "j", "h", "g", "f", "y", "n">>
Body(len, distinct) == [i \in 1..len |-> BodyChars[((i - 1) % distinct) + 1]]
TokenPrefixes ==
    { <<>>, <<" ">>, BearerSpace, LowerBearer \o <<" ", " ">>,
      <<"B", "E", "A", "R", "E", "R", "\t">>, <<" ">> \o BearerSpace,
      <<"B", "e", "a", "r", "e", "r">>,
      <<"t", "e", "s", "t">>, <<"A", "d", "m", "i", "n">>, <<"1", "2", "3">> }
TokenSuffixes == { <<>>, <<" ">> }
TokenInputs ==
    { pre \o Body(len, distinct) \o suf :
        pre \in TokenPrefixes, len \in 0..MaxTokenLen,
        distinct \in {1, MinUniqueChars - 1, MinUniqueChars}, suf \in TokenSuffixes }

\* a call of a function, and what it returned or threw
NoCall == [fn |-> "none"]
NoResult == [kind |-> "none"]
Returns(value) == [kind |-> "returned", value |-> value]
Throws(message) == [kind |-> "threw", message |-> message]

\* validateTokenSecurity(input)
ValidateTokenSecurityCall ==
    /\ lastCall' = [fn |-> "validateTokenSecurity", args |-> <<input>>]
    /\ lastResult' = Returns(ValidateTokenSecurity(input))
    /\ UNCHANGED <<env, input, notFnVars>>

\* maskToken(input)
MaskTokenCall ==
    /\ lastCall' = [fn |-> "maskToken", args |-> <<input>>]
    /\ lastResult' = Returns(MaskToken(input))
    /\ UNCHANGED <<env, input, notFnVars>>

SecurityInit ==
    env = NoStr /\ input \in TokenInputs /\ lastCall = NoCall /\ lastResult = NoResult

SecurityNext == ValidateTokenSecurityCall \/ MaskTokenCall

(***************************************************************************)
(* auth.ts                                                                 *)
(***************************************************************************)
\* getTokenFromEnv(), with process.env.CENTERPOINT_API_TOKEN = e
GetTokenFromEnv(e) ==
    IF TruthyText(e) /\ Trim(e.val) # <<>> THEN Str(Trim(e.val)) ELSE NoStr

\* normalizeToken(token)
NormalizeTokenPrepending(token) == BearerSpace \o Trim(token)
NormalizeToken(token) ==
    LET trimmed == Trim(token)
    IN  IF StartsWith(ToLowerCase(trimmed), LowerBearer \o <<" ">>)
        THEN BearerSpace \o SubstringFrom(trimmed, 7)
        ELSE BearerSpace \o trimmed

\* resolveAuth(argToken)
ResolveAuthArgFirst(e, argToken) ==
    LET envToken == GetTokenFromEnv(e)
    IN  IF TruthyText(argToken) /\ Trim(argToken.val) # <<>>
        THEN Str(NormalizeToken(argToken.val))
        ELSE IF TruthyText(envToken) THEN Str(NormalizeToken(envToken.val))
        ELSE NoStr
ResolveAuth(e, argToken) ==
    LET envToken == GetTokenFromEnv(e)
    IN  IF TruthyText(envToken) THEN Str(NormalizeToken(envToken.val))
        ELSE IF TruthyText(argToken) /\ Trim(argToken.val) # <<>>
        THEN Str(NormalizeToken(argToken.val))
        ELSE NoStr

\* requireAuth(argToken)
NoTokenMessage == "No API token found. Please either: ..."
RequireAuth(e, argToken) ==
    LET token == ResolveAuth(e, argToken)
    IN  IF ~TruthyText(token) THEN Throws(NoTokenMessage) ELSE Returns(token.val)

\* { 'Authorization': token, ...additionalHeaders }: a key of
\* additionalHeaders is written after Authorization
SpreadAfter(token, additionalHeaders) ==
    [k \in {"Authorization"} \cup DOMAIN additionalHeaders |->
        IF k \in DOMAIN additionalHeaders THEN additionalHeaders[k] ELSE token]

\* createAuthenticatedHeaders(argToken, additionalHeaders)
CreateAuthenticatedHeaders(e, argToken, additionalHeaders) ==
    LET token == IF TruthyText(argToken) /\ Trim(argToken.val) # <<>>
                 THEN Returns(NormalizeToken(argToken.val))
                 ELSE RequireAuth(e, NoStr)
    IN  IF token.kind = "threw" THEN token
        ELSE Returns(SpreadAfter(token.value, additionalHeaders))

\* the tokens of the environment and of the calls, and the additional headers
TokA == <<"a", "1">>
TokB == <<"b", "2">>
EnvInputs ==
    { NoStr, Str(<<>>), Str(<<" ", " ">>), Str(TokA), Str(<<" ">> \o TokA \o <<" ">>),
      Str(LowerBearer \o <<" ">> \o TokA) }
ArgTokens ==
    { NoStr, Str(<<>>), Str(<<" ">>), Str(TokB), Str(<<" ">> \o TokB),
      Str(BearerSpace \o TokB), Str(<<"B", "E", "A", "R", "E", "R", " ">> \o TokB) }
NoHeadersGiven == <<>>
AdditionalHeaders ==
    { NoHeadersGiven,
      [k \in {"Content-Type"} |-> <<"j", "s", "o", "n">>],
      [k \in {"Authorization"} |-> BearerSpace \o <<"x">>],
      [k \in {"Authorization", "Content-Type"} |-> <<"x">>] }

\* the tokens passed to normalizeToken: those of the calls, the word bearer
\* alone and with a second word after it, and a prefix of two spaces
NormalizeInputs ==
    { o.val : o \in {a \in ArgTokens : a.has} }
        \cup { LowerBearer, LowerBearer \o <<" ", " ">> \o TokB,
               BearerSpace \o BearerSpace \o TokB, BearerSpace }

NormalizeTokenCall(token) ==
    /\ lastCall' = [fn |-> "normalizeToken", args |-> <<token>>]
    /\ lastResult' = Returns(NormalizeToken(token))
    /\ UNCHANGED <<env, input, notFnVars>>

ResolveAuthCall(argToken) ==
    /\ lastCall' = [fn |-> "resolveAuth", args |-> <<argToken>>]
    /\ lastResult' = Returns(ResolveAuth(env, argToken))
    /\ UNCHANGED <<env, input, notFnVars>>

RequireAuthCall(argToken) ==
    /\ lastCall' = [fn |-> "requireAuth", args |-> <<argToken>>]
    /\ lastResult' = RequireAuth(env, argToken)
    /\ UNCHANGED <<env, input, notFnVars>>

CreateAuthenticatedHeadersCall(argToken, additionalHeaders) ==
    /\ lastCall' = [fn |-> "createAuthenticatedHeaders", args |-> <<argToken, additionalHeaders>>]
    /\ lastResult' = CreateAuthenticatedHeaders(env, argToken, additionalHeaders)
    /\ UNCHANGED <<env, input, notFnVars>>

AuthInit ==
    env \in EnvInputs /\ input = <<>> /\ lastCall = NoCall /\ lastResult = NoResult

AuthNext ==
    \/ \E token \in NormalizeInputs : NormalizeTokenCall(token)
    \/ \E argToken \in ArgTokens : ResolveAuthCall(argToken)
    \/ \E argToken \in ArgTokens : RequireAuthCall(argToken)
    \/ \E argToken \in ArgTokens, additionalHeaders \in AdditionalHeaders :
           CreateAuthenticatedHeadersCall(argToken, additionalHeaders)

(***************************************************************************)
(* Specifications                                                          *)
(***************************************************************************)
\* a cache that is not used, and a batcher that is not used
CacheIdle ==
    /\ cache = EmptyMap /\ defaultTtl = MaxDefaultTtl /\ maxSize = MaxCacheSize
    /\ insertOrder = <<>> /\ lastOp = NoOp
BatchIdle ==
    /\ batches = <<>> /\ batchWindow = MaxBatchWindow /\ maxBatchSize = MaxBatchSize
    /\ timers = {} /\ reqs = <<>> /\ inflight = {} /\ timerSeq = 0
    /\ calls = <<>> /\ lastSettled = <<>>
LimiterIdle ==
    /\ attempts = <<>> /\ maxAttempts = MaxAttempts /\ windowMs = MaxWindowMs
    /\ attemptLog = <<>>

TokenIdle ==
    /\ tokenCache = <<>> /\ tokenDefaultTtl = MaxTokenTtl
    /\ tokenSets = <<>> /\ lastToken = NoTokenOp

FnIdle == env = NoStr /\ input = <<>> /\ lastCall = NoCall /\ lastResult = NoResult

MetricsIdle ==
    /\ metrics = MetricsAfter(0) /\ health = HealthAfter(0)
    /\ recorded = [metrics |-> <<>>, health |-> <<>>, calls |-> 0, errors |-> <<>>]
    /\ lastStatus = NoStatus

\* the cache under stores without ttlMs: eviction and the size bound
CacheNext == CacheNextOf(CacheConfigs, CacheResponses, {Undefined})
InitCache == now = 0 /\ CacheInit /\ BatchIdle /\ LimiterIdle /\ TokenIdle /\ MetricsIdle /\ FnIdle
SpecCache == InitCache /\ [][CacheNext]_vars

\* the cache, constructed with maxSize up to MaxCacheSize + 1, under stores
\* and reads of three keys without ttlMs: the order of eviction
ThreeKeyConfigs == {c \in CacheConfigs : c.method # "get"}
CacheOrderNext ==
    \/ \E c \in ThreeKeyConfigs, r \in CacheResponses : Set(c, r, Undefined)
    \/ \E c \in ThreeKeyConfigs : Get(c)
    \/ Tick
InitCacheWide ==
    /\ now = 0 /\ CacheInitOf(1..(MaxCacheSize + 1))
    /\ BatchIdle /\ LimiterIdle /\ TokenIdle /\ MetricsIdle /\ FnIdle
SpecCacheOrder == InitCacheWide /\ [][CacheOrderNext]_vars

\* the cache under stores with and without ttlMs: expiry
CacheTtlNext == CacheNextOf(TtlConfigs, {PlainResponse}, TtlArgs)
SpecCacheTtl == InitCache /\ [][CacheTtlNext]_vars

\* the cache under stores of responses with and without validators, with and
\* without ttlMs, and requests that come with headers of their own
CacheValidNext == CacheNextOf(ValidatorConfigs, ValidatorResponses, TtlArgs)
SpecCacheValid == InitCache /\ [][CacheValidNext]_vars

\* the batcher under requests of two groups sharing one executor that
\* returns short or exact lists, rejects or throws
BatchNext == BatchNextOf(TwoGroupConfigs, {"execA"}, {-1, 0})
InitBatch == now = 0 /\ BatchInit /\ CacheIdle /\ LimiterIdle /\ TokenIdle /\ MetricsIdle /\ FnIdle
SpecBatch == InitBatch /\ [][BatchNext]_vars

\* the batcher, constructed with maxBatchSize up to MaxBatchSize + 1, under
\* requests of two groups, one of them reached with and without a query
\* string, and executors that return exact lists
BatchCallsNextOf(configs, executors) ==
    \/ \E c \in configs, e \in executors : Add(c, e, [throws |-> FALSE, error |-> <<>>])
    \/ \E tm \in timers : TimerFires(tm, [throws |-> FALSE, error |-> <<>>])
    \/ \E inv \in inflight : \E results \in ResultLists(Len(inv.requests), {0}) :
           ExecutorResolves(inv, results)
    \/ BatchTick
BatchGroupsNext == BatchCallsNextOf(BatchConfigs, {"execA"})
InitBatchWide ==
    /\ now = 0 /\ BatchInitOf(1..(MaxBatchSize + 1))
    /\ CacheIdle /\ LimiterIdle /\ TokenIdle /\ MetricsIdle /\ FnIdle
SpecBatchGroups == InitBatchWide /\ [][BatchGroupsNext]_vars

\* the batcher under requests of one group added with two executors
BatchExecutorsNext == BatchCallsNextOf(OneGroupConfigs, Executors)
SpecBatchExecutors == InitBatchWide /\ [][BatchExecutorsNext]_vars

\* the batcher under requests of one group, the executor returning lists of
\* any length or no list at all, when time passes, armed timers fire and
\* executor promises settle
BatchLiveNext ==
    \/ BatchNextOf(OneGroupConfigs, {"execA"}, {-1, 0, 1})
    \/ ExecutorReturnsUndefined
SpecBatchFair ==
    /\ InitBatch /\ [][BatchLiveNext]_vars
    /\ WF_vars(BatchTick)
    /\ WF_vars(TimerStep)
    /\ WF_vars(ExecutorSettlesOf({-1, 0, 1}) \/ ExecutorReturnsUndefined)

\* the rate limiter under calls for two identifiers as time passes
InitLimiter == now = 0 /\ LimiterInit /\ CacheIdle /\ BatchIdle /\ TokenIdle /\ MetricsIdle /\ FnIdle
SpecLimiter == InitLimiter /\ [][LimiterNext]_vars

\* getRemainingAttempts: Math.max(0, maxAttempts - count) inside the window
GetRemainingAttemptsInclusive(m, id, t, max, window) ==
    IF id \notin DOMAIN m THEN max
    ELSE IF t - m[id].firstAttempt >= window THEN max
    ELSE IF max - m[id].count > 0 THEN max - m[id].count ELSE 0
GetRemainingAttempts(m, id, t, max, window) ==
    IF id \notin DOMAIN m THEN max
    ELSE IF WindowExpired(m[id], t, window) THEN max
    ELSE IF max - m[id].count > 0 THEN max - m[id].count ELSE 0

\* a call of getRemainingAttempts(identifier)
GetRemainingAttemptsCall(id) ==
    /\ lastCall' = [fn |-> "getRemainingAttempts", args |-> <<id>>]
    /\ lastResult' = Returns(GetRemainingAttempts(attempts, id, now, maxAttempts, windowMs))
    /\ UNCHANGED <<now, limiterVars, cacheVars, batchVars, tokenVars, metricsVars, env, input>>

\* the rate limiter under calls of isAllowed and getRemainingAttempts
LimiterRemainingNext ==
    \/ \E id \in Identifiers : IsAllowedCall(id)
    \/ \E id \in Identifiers : GetRemainingAttemptsCall(id)
    \/ LimiterTick
SpecLimiterRemaining == InitLimiter /\ [][LimiterRemainingNext]_vars

\* the token cache under sets, gets and invalidations of two keys as time passes
InitToken == now = 0 /\ TokenInit /\ CacheIdle /\ BatchIdle /\ LimiterIdle /\ MetricsIdle /\ FnIdle
SpecToken == InitToken /\ [][TokenNext]_vars

\* the two monitors under requests that succeed or fail, fast or slow
InitMetrics == now = 0 /\ MetricsInit /\ CacheIdle /\ BatchIdle /\ LimiterIdle /\ TokenIdle /\ FnIdle
SpecMetrics == InitMetrics /\ [][MetricsNext]_vars

\* RequestMetrics.reset()
MetricsReset ==
    /\ metrics' = [totalRequests |-> 0, successfulRequests |-> 0, failedRequests |-> 0,
                   cacheHits |-> 0, cacheMisses |-> 0,
                   averageResponseTime |-> Zero, responseTimes |-> <<>>]
    /\ recorded' = [recorded EXCEPT !.metrics = <<>>]
    /\ UNCHANGED <<now, health, lastStatus, notMetricsVars>>

\* HealthMonitor.reset()
HealthReset ==
    /\ health' = [startTime |-> now,
                  requests |-> [total |-> 0, successful |-> 0, failed |-> 0,
                                avgResponseTime |-> Zero],
                  auth |-> [successful |-> 0, failed |-> 0, rateLimited |-> 0],
                  cache |-> [hits |-> 0, misses |-> 0],
                  errors |-> [count |-> 0, lastError |-> NullString, lastErrorTime |-> Null],
                  responseTimes |-> <<>>]
    /\ recorded' = [recorded EXCEPT !.health = <<>>, !.errors = <<>>]
    /\ lastStatus' = NoStatus
    /\ UNCHANGED <<now, metrics, notMetricsVars>>

\* the two monitors under record and reset calls
MetricsResetNext ==
    \/ \E success \in BOOLEAN, hit \in BOOLEAN : RecordRequest(success, 1, hit)
    \/ \E success \in BOOLEAN : HealthRecordRequest(success, 1)
    \/ MetricsReset
    \/ HealthReset
SpecMetricsReset == InitMetrics /\ [][MetricsResetNext]_vars

\* the health monitor under requests, auth events, cache events, errors and
\* snapshots as time passes
InitHealth == HealthInit /\ CacheIdle /\ BatchIdle /\ LimiterIdle /\ TokenIdle /\ FnIdle
SpecHealth == InitHealth /\ [][HealthNext]_vars

\* validateTokenSecurity and maskToken over tokens with and without a Bearer
\* prefix, white space, test-like prefixes, long and short
InitSecurity ==
    now = 0 /\ SecurityInit /\ CacheIdle /\ BatchIdle /\ LimiterIdle /\ TokenIdle /\ MetricsIdle
SpecSecurity == InitSecurity /\ [][SecurityNext]_vars

\* the functions of auth.ts over environment tokens, argument tokens and
\* additional headers
InitAuth ==
    now = 0 /\ AuthInit /\ CacheIdle /\ BatchIdle /\ LimiterIdle /\ TokenIdle /\ MetricsIdle
SpecAuth == InitAuth /\ [][AuthNext]_vars

(***************************************************************************)
(* Properties of ResponseCache                                             *)
(***************************************************************************)
Range(seq) == {seq[i] : i \in 1..Len(seq)}

\* C1: a cache constructed with maxSize >= 1 never holds more than maxSize
\* entries, whatever sequence of set, get, shouldRefresh,
\* addConditionalHeaders and clear calls is made.
C1_SizeWithinMax == maxSize >= 1 => MapSize(cache) <= maxSize

\* a set has evicted an entry of a cache that was full, and the cache is full again
C1_Witness ==
    /\ lastOp.op = "set" /\ lastOp.evicted # {}
    /\ MapSize(cache) = maxSize /\ maxSize = MaxCacheSize

\* the key the next eviction removes
NextEvicted(m) == MapKeys(m) \ MapKeys(EvictIfFull(m, 0))

ClaimedTtl(entry) == IF entry.expires.has THEN entry.expires.val ELSE defaultTtl

\* C3: for a key with a cached entry, get returns a miss if and only if
\* now - receivedAt > the entry's effective TTL (the override when one was
\* supplied, else the default): a hit at age = TTL, never a hit beyond it.
C3_MissIffOlderThanTtl ==
    [][ (lastOp'.op = "get" /\ MapHas(cache, lastOp'.key)) =>
            LET entry == MapGet(cache, lastOp'.key)
            IN  lastOp'.hit <=> ~(now - entry.timestamp > ClaimedTtl(entry))
      ]_vars

\* C4: an entry stored with a ttlMs override t, 0 included, is expired and
\* deleted by get as soon as now - receivedAt > t and is a hit until then;
\* the default TTL governs only the entries stored without an override.
C4_OverrideIsEffectiveTtl ==
    [][ (lastOp'.op = "get" /\ MapHas(cache, lastOp'.key)) =>
            LET entry == MapGet(cache, lastOp'.key)
                age == now - entry.timestamp
            IN  /\ (entry.expires.has /\ age > entry.expires.val) =>
                       (~lastOp'.hit /\ ~MapHas(cache', lastOp'.key))
                /\ (entry.expires.has /\ age <= entry.expires.val) => lastOp'.hit
                /\ ~entry.expires.has => (lastOp'.hit <=> age <= defaultTtl)
      ]_vars

\* the entry of the key is live: present and not older than the TTL the
\* specification gives it
IsLive(key) ==
    /\ MapHas(cache, key)
    /\ ~(now - MapGet(cache, key).timestamp > ClaimedTtl(MapGet(cache, key)))

\* C17: shouldRefresh returns true whenever the live entry of the request
\* carries an ETag or a Last-Modified validator, false exactly when the
\* request has a live entry with neither, and true when there is no live entry.
C17_RefreshUnlessLiveWithoutValidator ==
    [][ lastOp'.op = "shouldRefresh" =>
            LET key == lastOp'.key
                entry == MapGet(cache, key)
            IN  lastOp'.hit <=>
                    \/ ~IsLive(key)
                    \/ entry.etag # NoString
                    \/ entry.lastModified # NoString
      ]_vars

\* C18: addConditionalHeaders leaves the headers of the request unchanged
\* when it has no live cached entry; otherwise it sets If-None-Match to the
\* ETag of the entry iff the entry has one and If-Modified-Since to its
\* Last-Modified iff it has one, and changes no other header.
C18_ConditionalHeaders ==
    [][ \A c \in ValidatorConfigs :
            AddConditionalHeaders(c) =>
                LET key == createCacheKey(c)
                    entry == MapGet(cache, key)
                    out == lastOp'.headers
                IN  IF ~IsLive(key) THEN out = c.headers
                    ELSE /\ out.ifNoneMatch =
                                IF entry.etag # NoString THEN entry.etag
                                ELSE c.headers.ifNoneMatch
                         /\ out.ifModifiedSince =
                                IF entry.lastModified # NoString THEN entry.lastModified
                                ELSE c.headers.ifModifiedSince
                         /\ out.accept = c.headers.accept
      ]_vars

(***************************************************************************)
(* Properties of RequestBatcher                                            *)
(***************************************************************************)
\* the executor invocations a request was passed to
CallsOf(r) == {i \in DOMAIN calls : r \in Range(calls[i].requests)}
\* the request is pending in a group of the batcher
InBatch(r) == \E k \in DOMAIN batches : r \in Range(batches[k].requests)
\* the requests enqueued into a group, in enqueue order
GroupMembers(g) ==
    SelectSeq([r \in 1..Len(reqs) |-> r], LAMBDA r : reqs[r].group = g)
NoDuplicates(seq) == \A a, b \in 1..Len(seq) : seq[a] = seq[b] => a = b

\* C5: a group is flushed at most once, by its timer or by its size and never
\* by both, and every enqueued request is passed to exactly one executor
\* invocation: none while it waits in its group, one from the flush on.
C5_FlushedOnce ==
    /\ \A i, j \in DOMAIN calls : calls[i].group = calls[j].group => i = j
    /\ \A i \in DOMAIN calls :
           /\ NoDuplicates(calls[i].requests)
           /\ \A r \in Range(calls[i].requests) : reqs[r].group = calls[i].group
    /\ \A r \in DOMAIN reqs :
           IF InBatch(r) THEN CallsOf(r) = {} ELSE Cardinality(CallsOf(r)) = 1
    /\ \A tm \in timers : \A i \in DOMAIN calls : calls[i].group # tm.id

\* one group was flushed by its timer and another one by its size
C5_Witness ==
    \E i, j \in DOMAIN calls :
        /\ calls[i].by = "timer" /\ calls[j].by = "size"
        /\ Len(calls[j].requests) = 2

\* C6: every promise returned by add is settled exactly once: never twice,
\* and, when armed timers fire and executor promises settle, from some time
\* on every promise is settled, whatever the length of the list the
\* executor returns.
C6_SettledExactlyOnce ==
    /\ [](\A r \in DOMAIN reqs : reqs[r].settles <= 1)
    /\ <>[](\A r \in DOMAIN reqs : reqs[r].settles = 1 /\ reqs[r].state # "pending")

\* every request is settled, one of them by a list that was too short for it
C6_Witness ==
    /\ Len(reqs) = MaxRequests
    /\ \A r \in DOMAIN reqs : reqs[r].settles = 1
    /\ \E r \in DOMAIN reqs : reqs[r].state = "resolved" /\ reqs[r].value = UndefinedValue
    /\ \E i \in DOMAIN calls : calls[i].outcome.kind = "resolved"
                                  /\ Len(calls[i].outcome.results) > Len(calls[i].requests)

\* C7: a flush passes the request specs of its group to the executor in
\* enqueue order; when the executor succeeds, the i-th request of the flush
\* is resolved with the i-th element of the returned list (undefined when
\* the list has none), and the members are settled in enqueue order.
C7_PositionalResults ==
    /\ \A i \in DOMAIN calls :
           LET c == calls[i]
           IN  /\ c.requests = GroupMembers(c.group)
               /\ c.configs = [j \in 1..Len(c.requests) |-> reqs[c.requests[j]].config]
               /\ c.outcome.kind = "resolved" =>
                      \A j \in 1..Len(c.requests) :
                          /\ reqs[c.requests[j]].state = "resolved"
                          /\ reqs[c.requests[j]].value =
                                 IF j <= Len(c.outcome.results)
                                 THEN c.outcome.results[j] ELSE UndefinedValue
    /\ \A a, b \in DOMAIN lastSettled : a < b => lastSettled[a].req < lastSettled[b].req

\* a flush of two requests was resolved by a list of two results
C7_Witness ==
    \E i \in DOMAIN calls :
        /\ calls[i].outcome.kind = "resolved"
        /\ Len(calls[i].requests) = 2 /\ Len(calls[i].outcome.results) = 2
        /\ Len(lastSettled) = 2

\* C8: when the executor of a flush rejects or throws, every request of that
\* flush is rejected with that error and none is resolved; the requests of
\* other flushes and of the groups still waiting keep their state.
C8_FailureRejectsAll ==
    /\ \A i \in DOMAIN calls :
           LET c == calls[i]
           IN  /\ c.outcome.kind \in {"rejected", "threw"} =>
                      \A r \in Range(c.requests) :
                          /\ reqs[r].state = "rejected"
                          /\ reqs[r].value = c.outcome.error
                          /\ reqs[r].settles = 1
               /\ c.outcome.kind = "pending" =>
                      \A r \in Range(c.requests) : reqs[r].state = "pending"
               /\ c.outcome.kind = "resolved" =>
                      \A r \in Range(c.requests) : reqs[r].state = "resolved"
    /\ \A r \in DOMAIN reqs : InBatch(r) => reqs[r].state = "pending"

\* a flush of two requests failed while a later request with the same key
\* is still waiting in its own group
C8_Witness ==
    \E i \in DOMAIN calls :
        /\ calls[i].outcome.kind \in {"rejected", "threw"}
        /\ Len(calls[i].requests) = 2
        /\ \E r \in DOMAIN reqs :
               /\ InBatch(r)
               /\ getBatchKey(reqs[r].config) = getBatchKey(reqs[calls[i].requests[1]].config)

C10_SizeFlushImmediate ==
    /\ [](\A i \in DOMAIN calls : Len(calls[i].requests) <= maxBatchSize)
    /\ [](\A tm \in timers :
              tm.key \in DOMAIN batches /\ batches[tm.key].timeout = tm.id)
    /\ [][ Len(reqs') = Len(reqs) + 1 =>
               LET r == Len(reqs')
                   k == getBatchKey(reqs'[r].config)
                   before == IF k \in DOMAIN batches THEN batches[k].requests ELSE <<>>
               IN  Len(before) + 1 = maxBatchSize =>
                       /\ Len(calls') = Len(calls) + 1
                       /\ calls'[Len(calls')].by = "size"
                       /\ calls'[Len(calls')].requests = Append(before, r)
                       /\ k \notin DOMAIN batches'
                       /\ \A tm \in timers' : tm.key # k
         ]_vars

\* an add has flushed a full group of two requests
C10_Witness ==
    /\ calls # <<>>
    /\ calls[Len(calls)].by = "size"
    /\ Len(calls[Len(calls)].requests) = maxBatchSize
    /\ maxBatchSize = 2
    /\ calls[Len(calls)].requests[2] = Len(reqs)

\* the group key of an executor invocation
CallKey(i) == getBatchKey(reqs[calls[i].requests[1]].config)

\* C11: a flush removes the group from the batcher before the executor is
\* invoked: a request enqueued with the same key while that executor is in
\* flight joins a fresh group with its own newly armed timer, is not part of
\* the in-flight batch, and its dispatch does not wait for that executor.
C11_FreshGroupWhileInFlight ==
    /\ [](\A inv \in inflight : \A k \in DOMAIN batches :
              /\ batches[k].timeout # calls[inv.call].group
              /\ Range(batches[k].requests) \cap Range(inv.requests) = {})
    /\ [](\A tm \in timers :
              now >= tm.deadline => ENABLED (\E sync \in SyncOutcomes : TimerFires(tm, sync)))
    /\ [][ /\ Len(calls') = Len(calls) + 1 =>
                  getBatchKey(calls'[Len(calls')].configs[1]) \notin DOMAIN batches'
           /\ Len(reqs') = Len(reqs) + 1 =>
                  LET r == Len(reqs')
                      k == getBatchKey(reqs'[r].config)
                      g == reqs'[r].group
                  IN  (k \notin DOMAIN batches /\ \E inv \in inflight : CallKey(inv.call) = k) =>
                          /\ \A i \in DOMAIN calls : calls[i].group # g
                          /\ \A tm \in timers : tm.id # g
                          /\ \A inv \in inflight : inv \in inflight' /\ r \notin Range(inv.requests)
                          /\ IF maxBatchSize > 1
                             THEN /\ k \in DOMAIN batches'
                                  /\ batches'[k].requests = <<r>>
                                  /\ batches'[k].timeout = g
                                  /\ \E tm \in timers' :
                                         /\ tm.id = g /\ tm.key = k
                                         /\ tm.deadline = now + batchWindow
                                  /\ calls' = calls
                             ELSE /\ Len(calls') = Len(calls) + 1
                                  /\ calls'[Len(calls')].requests = <<r>>
         ]_vars

\* the timer of a fresh group has dispatched it while the executor of the
\* earlier flush of the same key is still in flight
C11_Witness ==
    \E inv1, inv2 \in inflight :
        /\ inv1.call < inv2.call
        /\ CallKey(inv1.call) = CallKey(inv2.call)
        /\ calls[inv1.call].by = "size" /\ calls[inv2.call].by = "timer"
        /\ calls[inv1.call].outcome.kind = "pending"

(***************************************************************************)
(* Properties of AuthRateLimiter                                           *)
(***************************************************************************)
\* the isAllowed calls made for an identifier, in call order
LogOf(id) == SelectSeq(attemptLog, LAMBDA e : e.id = id)
\* the step is a call of isAllowed(id)
IsCallOf(id) ==
    /\ Len(attemptLog') = Len(attemptLog) + 1
    /\ attemptLog'[Len(attemptLog')].id = id
\* what the call of this step returns
Returned == attemptLog'[Len(attemptLog')].allowed
\* the calls for id made strictly inside the window of its record
InsideWindow(id) ==
    SelectSeq(LogOf(id), LAMBDA e : /\ e.at >= attempts[id].firstAttempt
                                    /\ e.at - attempts[id].firstAttempt < windowMs)
\* the number of calls for id that returned true at the times from..(to - 1)
AllowedIn(id, from, to) ==
    Cardinality({i \in DOMAIN attemptLog : /\ attemptLog[i].id = id
                                           /\ attemptLog[i].allowed
                                           /\ from <= attemptLog[i].at
                                           /\ attemptLog[i].at < to})

\* C12: with maxAttempts >= 1, among the isAllowed(id) calls made strictly
\* inside one window (now - windowStart < windowMs), exactly the first
\* maxAttempts return true and every later one returns false.
C12_FirstMaxAttemptsAllowed ==
    maxAttempts >= 1 =>
        \A id \in DOMAIN attempts :
            LET w == InsideWindow(id)
            IN  \A j \in 1..Len(w) : w[j].allowed <=> j <= maxAttempts

\* maxAttempts = 2 calls were allowed and a third one denied inside one
\* window, while calls for another identifier came in between
C12_Witness ==
    \E id \in DOMAIN attempts :
        /\ maxAttempts = 2
        /\ Len(InsideWindow(id)) = 3
        /\ ~InsideWindow(id)[3].allowed
        /\ \E i \in 2..(Len(attemptLog) - 1) : attemptLog[i].id # id

\* C13: an isAllowed(id) call that returns false changes no state: count and
\* windowStart stay as they are, so that the count never exceeds
\* maxAttempts and denied attempts do not move the start of the window.
C13_DeniedChangesNothing ==
    /\ [](\A id \in DOMAIN attempts : attempts[id].count <= maxAttempts)
    /\ [][ \A id \in Identifiers :
               (IsCallOf(id) /\ ~Returned) => attempts' = attempts ]_vars

\* an identifier was denied twice in a row at its limit
C13_Witness ==
    \E id \in DOMAIN attempts :
        LET l == LogOf(id)
        IN  /\ Len(l) >= 3
            /\ ~l[Len(l)].allowed /\ ~l[Len(l) - 1].allowed
            /\ attempts[id].count = maxAttempts

\* C14: isAllowed(id) called with now - windowStart > windowMs returns true
\* and leaves the record with count = 1 and windowStart = now, whatever the
\* count was before, a record blocked at maxAttempts included.
C14_ResetAfterWindow ==
    [][ \A id \in Identifiers :
            (/\ IsCallOf(id)
             /\ id \in DOMAIN attempts
             /\ now - attempts[id].firstAttempt > windowMs) =>
                /\ Returned
                /\ attempts'[id] = [count |-> 1, firstAttempt |-> now]
      ]_vars

\* an identifier that was denied at its limit is allowed again by a call
\* that restarts its window
C14_Witness ==
    \E id \in DOMAIN attempts :
        LET l == LogOf(id)
        IN  /\ Len(l) >= 3
            /\ ~l[Len(l) - 1].allowed /\ l[Len(l)].allowed
            /\ attempts[id] = [count |-> 1, firstAttempt |-> now]
            /\ l[Len(l)].at = now

\* C15: attempts are counted against a record only at the times t with
\* windowStart <= t < windowStart + windowMs: a call at exactly
\* t = windowStart + windowMs is the first attempt of a new window and
\* returns true with the count reset to 1.
C15_HalfOpenWindow ==
    [][ \A id \in Identifiers :
            (IsCallOf(id) /\ id \in DOMAIN attempts) =>
                LET ws == attempts[id].firstAttempt
                IN  /\ now = ws + windowMs =>
                           /\ Returned
                           /\ attempts'[id] = [count |-> 1, firstAttempt |-> now]
                    /\ (/\ attempts'[id].firstAttempt = ws
                        /\ attempts'[id].count > attempts[id].count) =>
                           (ws <= now /\ now < ws + windowMs)
      ]_vars

\* C16: the rate limiter enforces a sliding-window limit: in any time
\* interval of length windowMs, isAllowed(id) returns true at most
\* maxAttempts times.
C16_SlidingWindow ==
    \A id \in Identifiers, t \in 0..MaxTime :
        AllowedIn(id, t, t + windowMs) <= maxAttempts

\* C16, amended: the rate limiter enforces a fixed-window limit: since the
\* start of the window of its record isAllowed(id) has returned true
\* exactly count <= maxAttempts times, and an interval of length windowMs,
\* which may straddle two windows, holds at most 2 * maxAttempts allowed calls.
C16_FixedWindow ==
    /\ \A id \in DOMAIN attempts :
           /\ AllowedIn(id, attempts[id].firstAttempt, now + 1) = attempts[id].count
           /\ attempts[id].count <= maxAttempts
    /\ \A id \in Identifiers, t \in 0..MaxTime :
           AllowedIn(id, t, t + windowMs + 1) <= 2 * maxAttempts

\* an interval of length windowMs straddles two windows and holds more than
\* maxAttempts allowed calls
C16_Witness ==
    \E id \in DOMAIN attempts, t \in 0..MaxTime :
        /\ AllowedIn(id, t, t + windowMs) > maxAttempts
        /\ t < attempts[id].firstAttempt
        /\ attempts[id].firstAttempt < t + windowMs

(***************************************************************************)
(* Properties of SecureTokenCache                                          *)
(***************************************************************************)
\* the token of the most recent set of the key, while no invalidate or clear
\* followed that set and now <= the expiry it recorded; null otherwise
StandingToken(key) ==
    IF /\ key \in DOMAIN tokenSets
       /\ tokenSets[key].stands
       /\ now <= tokenSets[key].expires
    THEN tokenSets[key].token
    ELSE NullToken

\* the entry of the key is the same before and after the step
SameToken(key) ==
    /\ key \in DOMAIN tokenCache <=> key \in DOMAIN tokenCache'
    /\ key \in DOMAIN tokenCache => tokenCache'[key] = tokenCache[key]

\* C19: get(key) returns the token of the most recent set(key, ...) if and
\* only if no invalidate(key) or clear happened since and now <= the expiry
\* that set recorded; once now > expires, get returns a miss and deletes the
\* entry; invalidate(key) affects no other key.
C19_TokenUntilExpiry ==
    [][ \A k \in TokenKeys :
            /\ (lastToken'.op = "get" /\ lastToken'.key = k) =>
                   /\ lastToken'.token = StandingToken(k)
                   /\ (k \in DOMAIN tokenCache /\ now > tokenCache[k].expires) =>
                          (lastToken'.token = NullToken /\ k \notin DOMAIN tokenCache')
                   /\ \A k2 \in TokenKeys \ {k} : SameToken(k2)
            /\ (lastToken'.op = "invalidate" /\ lastToken'.key = k) =>
                   /\ k \notin DOMAIN tokenCache'
                   /\ \A k2 \in TokenKeys \ {k} : SameToken(k2)
      ]_vars

\* a get has missed and deleted an expired entry that no invalidate had
\* removed, while the other key is still cached
C19_Witness ==
    \E k \in DOMAIN tokenSets :
        /\ lastToken = [op |-> "get", key |-> k, token |-> NullToken]
        /\ tokenSets[k].stands
        /\ now > tokenSets[k].expires
        /\ k \notin DOMAIN tokenCache
        /\ DOMAIN tokenCache # {}

(***************************************************************************)
(* Properties of RequestMetrics and HealthMonitor                          *)
(***************************************************************************)

\* the latencies of the last min(n, 1000) of the n recorded requests, in
\* arrival order
LastRecorded(log) == SubSeq(log, Len(log) - Min(Len(log), 1000) + 1, Len(log))

\* average times sample count equals the sum of the samples
IsMeanOf(average, samples) == average.num * Len(samples) = Sum(samples) * average.den

Snapshot == lastStatus.op = "getHealthStatus"

\* how many of the four checks of a report hold
One(b) == IF b THEN 1 ELSE 0
Holding(checks) ==
    One(checks.highSuccessRate) + One(checks.noRecentErrors)
        + One(checks.reasonableResponseTime) + One(checks.authWorking)

\* C21: getHealthStatus reports healthy if and only if all four checks hold,
\* degraded if and only if exactly three of them hold, and unhealthy if and
\* only if two or fewer hold.
C21_StatusByChecks ==
    Snapshot =>
        LET report == lastStatus.report
            holding == Holding(report.checks)
        IN  /\ DOMAIN report.checks =
                   {"highSuccessRate", "noRecentErrors", "reasonableResponseTime", "authWorking"}
            /\ report.status = "healthy" <=> holding = 4
            /\ report.status = "degraded" <=> holding = 3
            /\ report.status = "unhealthy" <=> holding <= 2

\* a snapshot of a monitor two of whose checks fail
C21_Witness ==
    /\ Snapshot
    /\ Holding(lastStatus.report.checks) = 2
    /\ lastStatus.report.status = "unhealthy"

\* no recordError in the five minutes before time t
NoErrorInLastFiveMinutes(t) ==
    \A i \in DOMAIN recorded.errors : t - recorded.errors[i] > RecentErrorMs

\* the monitor of the health scenario: 100 requests recorded, 96 of them
\* successful, an average latency of 200 ms, no authentication failure
ScenarioMetrics ==
    /\ health.requests.total = 100
    /\ health.requests.successful = 96
    /\ health.requests.avgResponseTime = Quotient(200, 1)
    /\ health.auth.failed = 0

\* C22: whenever 100 requests have been recorded of which 96 were
\* successful, no error was recorded in the last 5 minutes, the average
\* latency is 200 ms and no authentication failure has been recorded,
\* whatever the number of recorded authentication successes, getHealthStatus
\* reports healthy with all four checks passing.
C22_HealthyScenario ==
    (Snapshot /\ ScenarioMetrics /\ NoErrorInLastFiveMinutes(lastStatus.at)) =>
        /\ lastStatus.report.status = "healthy"
        /\ Holding(lastStatus.report.checks) = 4

\* C23: getHealthStatus is pure: a call changes no request, auth, cache or
\* error counter, no retained latency sample and no lastError field (nor the
\* other monitor), so the metrics state is that of the record calls alone,
\* whether or not snapshots are interleaved with them.
C23_SnapshotChangesNothing ==
    /\ [][(lastStatus' # lastStatus /\ lastStatus'.op = "getHealthStatus") =>
              (health' = health /\ metrics' = metrics)]_vars
    /\ [](/\ health.responseTimes = LastRecorded(recorded.health)
          /\ health.errors.count = Len(recorded.errors)
          /\ (recorded.errors # <<>> =>
                 health.errors.lastErrorTime = Num(recorded.errors[Len(recorded.errors)])))

\* a snapshot taken more than five minutes after an error, of a monitor that
\* has also recorded a request
C23_Witness ==
    /\ Snapshot
    /\ health.errors.count = 1 /\ health.errors.lastError # NullString
    /\ lastStatus.at > health.errors.lastErrorTime.val + RecentErrorMs
    /\ Len(recorded.health) \in {1, 101}

\* two consecutive snapshots of the same metrics state: the step is a
\* getHealthStatus taken after another, with no record call in between
SecondSnapshot == Snapshot /\ lastStatus' # lastStatus /\ lastStatus'.op = "getHealthStatus"

\* t is on the recent side of the last recorded error
Recent(t) ==
    /\ health.errors.lastErrorTime # Null
    /\ t - health.errors.lastErrorTime.val <= RecentErrorMs

\* C24: two getHealthStatus calls made over identical recorded metrics state
\* return the same four checks and the same status, at any two call times.
C24_SameAtAnyTime ==
    [][SecondSnapshot =>
          /\ lastStatus'.report.checks = lastStatus.report.checks
          /\ lastStatus'.report.status = lastStatus.report.status]_vars

\* C24, amended: two getHealthStatus calls made over identical recorded
\* metrics state return the same highSuccessRate, reasonableResponseTime and
\* authWorking checks at any two call times; they return the same
\* noRecentErrors check, and with it the same status, when no error is
\* recorded or both calls are made within five minutes of the last error or
\* both later than that.
C24_SameOnSameSideOfFiveMinutes ==
    [][SecondSnapshot =>
          LET first == lastStatus.report
              second == lastStatus'.report
          IN  /\ second.checks.highSuccessRate = first.checks.highSuccessRate
              /\ second.checks.reasonableResponseTime = first.checks.reasonableResponseTime
              /\ second.checks.authWorking = first.checks.authWorking
              /\ (Recent(lastStatus.at) <=> Recent(lastStatus'.at)) =>
                     (second.checks = first.checks /\ second.status = first.status)]_vars

\* a snapshot was taken after an error, time has passed with no record call,
\* and the next snapshot still falls within five minutes of the error
C24_Witness ==
    /\ Snapshot
    /\ health.errors.count = 1
    /\ now > lastStatus.at
    /\ Recent(lastStatus.at) /\ Recent(now)

\* the time of the last recordError
LastErrorAt == recorded.errors[Len(recorded.errors)]

\* C25: the noRecentErrors check is true before any error is recorded; after
\* recordError at time t with no later error it is false at every snapshot
\* taken within the 5 minutes following t and true at every snapshot taken
\* more than 5 minutes after t.
C25_RecentForFiveMinutes ==
    Snapshot =>
        IF recorded.errors = <<>> THEN lastStatus.report.checks.noRecentErrors
        ELSE IF lastStatus.at - LastErrorAt <= RecentErrorMs
             THEN ~lastStatus.report.checks.noRecentErrors
             ELSE lastStatus.report.checks.noRecentErrors

\* a snapshot taken exactly five minutes after the error
C25_Witness ==
    /\ Snapshot
    /\ recorded.errors # <<>>
    /\ lastStatus.at - LastErrorAt = RecentErrorMs
    /\ ~lastStatus.report.checks.noRecentErrors

(***************************************************************************)
(* maskToken and validateTokenSecurity                                     *)
(***************************************************************************)
\* the last call was maskToken(input)
Masked == lastCall.fn = "maskToken" /\ lastResult.kind = "returned"

\* out is the first 4 characters of clean, then min(12, length - 8) mask
\* characters and nothing else, then the last 4 characters of clean
MaskOf(clean, out) ==
    LET masks == IF Len(clean) - 8 < 12 THEN Len(clean) - 8 ELSE 12
    IN  /\ Len(out) = 4 + masks + 4
        /\ \A i \in 1..4 : out[i] = clean[i]
        /\ \A i \in 5..(4 + masks) : out[i] = "*"
        /\ \A i \in 1..4 : out[4 + masks + i] = clean[Len(clean) - 4 + i]

\* C26: for a token whose length, after removing a leading Bearer prefix and
\* trimming, is greater than 8, maskToken returns its first 4 characters,
\* then min(12, length - 8) mask characters, then its last 4 characters; for
\* a token of length <= 8 it returns the fixed redaction marker.
C26_MaskOrRedact ==
    Masked =>
        IF Len(CleanToken(input)) > 8 THEN MaskOf(CleanToken(input), lastResult.value)
        ELSE lastResult.value = RedactedMarker

\* C26, amended: as C26, but for the empty token maskToken returns the fixed
\* marker for empty tokens, not the redaction marker.
C26_MaskRedactOrEmpty ==
    Masked =>
        IF Len(CleanToken(input)) > 8 THEN MaskOf(CleanToken(input), lastResult.value)
        ELSE IF input = <<>> THEN lastResult.value = EmptyMarker
        ELSE lastResult.value = RedactedMarker

\* maskToken of a token with a Bearer prefix that is longer than 20
\* characters without it: 12 mask characters stand for more than 12
C26_Witness ==
    /\ Masked
    /\ StartsWith(input, BearerSpace)
    /\ Len(CleanToken(input)) > 20
    /\ Len(lastResult.value) = 20

\* the last call was validateTokenSecurity(input)
Validated == lastCall.fn = "validateTokenSecurity"

\* C27: validateTokenSecurity never throws and returns isValid = false if and
\* only if the token, after removing a leading Bearer prefix and trimming, is
\* shorter than 20 characters, whatever its prefix and the number of its
\* distinct characters; errors is non-empty exactly when isValid is false.
C27_InvalidIffShort ==
    Validated =>
        /\ lastResult.kind = "returned"
        /\ ~lastResult.value.isValid <=> Len(CleanToken(input)) < 20
        /\ lastResult.value.errors # <<>> <=> ~lastResult.value.isValid

\* a token of 20 characters or more with a test-like prefix and fewer than
\* 10 distinct characters: two warnings, and valid
C27_Witness ==
    /\ Validated
    /\ lastResult.value.isValid
    /\ Len(lastResult.value.warnings) = 2
    /\ lastResult.value.errors = <<>>

(***************************************************************************)
(* resolveAuth, requireAuth and createAuthenticatedHeaders                 *)
(***************************************************************************)
\* a token that is given and not blank
NotBlank(o) == o.has /\ \E i \in DOMAIN o.val : ~IsSpace(o.val[i])

\* what the claims take resolveAuth(argToken) to be
Resolved(argToken) ==
    IF NotBlank(env) THEN Str(NormalizeToken(env.val))
    ELSE IF NotBlank(argToken) THEN Str(NormalizeToken(argToken.val))
    ELSE NoStr

\* C28: resolveAuth(argToken) returns the normalized environment token
\* whenever CENTERPOINT_API_TOKEN is set and not blank, regardless of
\* argToken; otherwise the normalized argToken when it is not blank;
\* otherwise null. requireAuth(argToken) returns exactly resolveAuth(argToken)
\* when that is non-null and throws a 'No API token found' error exactly when
\* it is null.
C28_EnvironmentFirst ==
    /\ lastCall.fn = "resolveAuth" =>
           lastResult = Returns(Resolved(lastCall.args[1]))
    /\ lastCall.fn = "requireAuth" =>
           IF Resolved(lastCall.args[1]) = NoStr THEN lastResult = Throws(NoTokenMessage)
           ELSE lastResult = Returns(Resolved(lastCall.args[1]).val)

\* resolveAuth with an argument token that is not blank, in an environment
\* whose token carries a lower-case bearer prefix: the environment token,
\* with the prefix as Bearer
C28_Witness ==
    /\ lastCall.fn = "resolveAuth"
    /\ NotBlank(lastCall.args[1])
    /\ env = Str(LowerBearer \o <<" ">> \o TokA)
    /\ lastResult = Returns(Str(BearerSpace \o TokA))

\* the last call was createAuthenticatedHeaders(argToken, additionalHeaders)
Headed == lastCall.fn = "createAuthenticatedHeaders"

\* C29: createAuthenticatedHeaders(argToken, extra) uses the normalized
\* argToken as Authorization whenever argToken is not blank, even when the
\* environment token is set; with a blank or absent argToken it uses the
\* environment token, and it throws 'No API token found' when neither is
\* available.
C29_ArgumentFirst ==
    Headed =>
        LET argToken == lastCall.args[1]
        IN  IF NotBlank(argToken)
            THEN /\ lastResult.kind = "returned"
                 /\ lastResult.value["Authorization"] = NormalizeToken(argToken.val)
            ELSE IF NotBlank(env)
            THEN /\ lastResult.kind = "returned"
                 /\ lastResult.value["Authorization"] = NormalizeToken(env.val)
            ELSE lastResult = Throws(NoTokenMessage)

\* the token createAuthenticatedHeaders resolves: the argument token before
\* the environment token
HeaderToken(argToken) == IF NotBlank(argToken) THEN argToken ELSE env

\* C30: the Authorization header returned by createAuthenticatedHeaders is
\* always the normalized resolved token: the entries of additionalHeaders
\* are merged into the result but never replace Authorization, for every
\* additionalHeaders map including one that itself contains an
\* Authorization key.
C30_AuthorizationNotReplaced ==
    (Headed /\ lastResult.kind = "returned") =>
        LET additionalHeaders == lastCall.args[2]
            headers == lastResult.value
        IN  /\ DOMAIN headers = {"Authorization"} \cup DOMAIN additionalHeaders
            /\ headers["Authorization"] = NormalizeToken(HeaderToken(lastCall.args[1]).val)
            /\ \A k \in DOMAIN additionalHeaders \ {"Authorization"} :
                   headers[k] = additionalHeaders[k]

\* the last call was normalizeToken(token)
Normalized == lastCall.fn = "normalizeToken"

\* the trimmed token with a leading 'bearer ' of any letter case removed
WithoutBearer(token) ==
    LET trimmed == Trim(token)
    IN  IF Len(trimmed) >= 7 /\ ToLowerCase(SubSeq(trimmed, 1, 7)) = LowerBearer \o <<" ">>
        THEN SubSeq(trimmed, 8, Len(trimmed))
        ELSE trimmed

\* the result of normalizeToken is 'Bearer ' followed by the trimmed token
\* without its bearer prefix
BearerThenToken == lastResult = Returns(BearerSpace \o WithoutBearer(lastCall.args[1]))

\* C31: normalizeToken is idempotent, for every token t, and its result is
\* always 'Bearer ' followed by the trimmed token with a leading 'bearer '
\* prefix of any letter case removed.
C31_Idempotent ==
    Normalized =>
        /\ NormalizeToken(lastResult.value) = lastResult.value
        /\ BearerThenToken

\* C31, amended: normalizeToken is idempotent for every token t that is not
\* blank, and its result is always 'Bearer ' followed by the trimmed token
\* with a leading 'bearer ' prefix of any letter case removed.
C31_IdempotentUnlessBlank ==
    Normalized =>
        /\ NotBlank(Str(lastCall.args[1])) => NormalizeToken(lastResult.value) = lastResult.value
        /\ BearerThenToken

\* normalizeToken of an upper-case BEARER token: the prefix is rewritten
C31_Witness ==
    /\ Normalized
    /\ lastCall.args[1] = <<"B", "E", "A", "R", "E", "R", " ">> \o TokB
    /\ lastResult = Returns(BearerSpace \o TokB)

(***************************************************************************)
(* RequestBatcher: groups, executors and timers                            *)
(***************************************************************************)
\* the upper-cased method of a request, GET when absent, and its URL with
\* the query string removed
MethodOf(config) == IF config.method = NoString THEN "GET" ELSE ToUpperCase(config.method)
PathOf(config) ==
    LET marks == {i \in 1..Len(config.url) : config.url[i] = "?"}
    IN  IF marks = {} THEN config.url
        ELSE SubSeq(config.url, 1, (CHOOSE i \in marks : \A j \in marks : i <= j) - 1)
SameGroupKey(c1, c2) == MethodOf(c1) = MethodOf(c2) /\ PathOf(c1) = PathOf(c2)

\* the pending group k holds a request of the same method and path as config
GroupMatches(k, config) ==
    \E i \in 1..Len(batches[k].requests) :
        SameGroupKey(reqs[batches[k].requests[i]].config, config)

\* the step is a call of add, and the step flushes a group
Added == Len(reqs') = Len(reqs) + 1
Flushed == Len(calls') = Len(calls) + 1
\* the request descriptor of the group the step adds to or flushes
Touched ==
    IF Added THEN reqs'[Len(reqs')].config
    ELSE reqs[calls'[Len(calls')].requests[1]].config

\* the pending requests of a step's new request: it is appended to its
\* group, or flushed as the last request of it
JoinsGroup(members) ==
    LET r == Len(reqs')
    IN  \/ \E k \in DOMAIN batches' : batches'[k].requests = Append(members, r)
        \/ Flushed /\ calls'[Len(calls')].requests = Append(members, r)

\* C32: two requests join the same batch group if and only if they have the
\* same upper-cased method (GET when absent) and the same URL with its query
\* string removed; adding to or flushing one group leaves the pending list
\* and the timer of every group with a different key unchanged.
C32_GroupedByMethodAndPath ==
    /\ [](\A k \in DOMAIN batches : \A i \in 1..Len(batches[k].requests) :
             \A k2 \in DOMAIN batches : \A i2 \in 1..Len(batches[k2].requests) :
                 k = k2 <=> SameGroupKey(reqs[batches[k].requests[i]].config,
                                         reqs[batches[k2].requests[i2]].config))
    /\ [][Added =>
             IF \E k \in DOMAIN batches : GroupMatches(k, Touched)
             THEN \A k \in DOMAIN batches :
                      GroupMatches(k, Touched) => JoinsGroup(batches[k].requests)
             ELSE JoinsGroup(<<>>)]_vars
    /\ [][(Added \/ Flushed) =>
             \A k \in DOMAIN batches :
                 ~GroupMatches(k, Touched) =>
                     /\ k \in DOMAIN batches' /\ batches'[k] = batches[k]
                     /\ {tm \in timers' : tm.key = k} = {tm \in timers : tm.key = k}]_vars

\* two requests that differ in method case and query string were flushed as
\* one group while a group with another key was pending
C32_Witness ==
    \E i \in 1..Len(calls) :
        /\ Len(calls[i].requests) = 2
        /\ calls[i].configs[1] # calls[i].configs[2]
        /\ \E k \in DOMAIN batches : batches[k].timeout < calls[i].group

\* the executor invocation that executed request r, if any: 0 if none yet
CallOf(r) ==
    IF \E i \in 1..Len(calls) : \E j \in 1..Len(calls[i].requests) : calls[i].requests[j] = r
    THEN CHOOSE i \in 1..Len(calls) : \E j \in 1..Len(calls[i].requests) : calls[i].requests[j] = r
    ELSE 0

\* C33: every request enqueued with add is executed by the executor that was
\* passed in its own add call, also when requests of the same group were
\* added with different executors and whether the group is flushed by its
\* timer or by reaching maxBatchSize.
C33_OwnExecutor ==
    \A r \in 1..Len(reqs) : CallOf(r) # 0 => calls[CallOf(r)].executor = reqs[r].executor

\* C33, amended: every group is executed as a whole by one executor: the one
\* passed to the add call that created the group when the group is flushed
\* by its timer, and the one passed to the add call that filled the group
\* when it is flushed by reaching maxBatchSize; the executors passed with the
\* other requests of the group are not called for it.
C33_GroupExecutor ==
    \A i \in 1..Len(calls) :
        LET members == calls[i].requests
        IN  /\ \A r \in 1..Len(reqs) : CallOf(r) = i <=> \E j \in 1..Len(members) : members[j] = r
            /\ calls[i].by = "timer" => calls[i].executor = reqs[members[1]].executor
            /\ calls[i].by = "size" => calls[i].executor = reqs[members[Len(members)]].executor

\* a group of two requests added with different executors was flushed
C33_Witness ==
    \E i \in 1..Len(calls) :
        /\ Len(calls[i].requests) = 2
        /\ reqs[calls[i].requests[1]].executor # reqs[calls[i].requests[2]].executor

\* the timers armed for the key k
TimersOf(k) == {tm \in timers : tm.key = k}

\* C34: between operations every group present has at least 1 and fewer than
\* maxBatchSize pending requests and exactly one armed timer, the one armed
\* at its first enqueue, and no armed timer exists for a key without a
\* group; a timer that flushes a group does so only after that group's own
\* window has elapsed, also when an earlier group had the same key.
C34_OneTimerPerGroup ==
    /\ [](/\ \A k \in DOMAIN batches :
                 /\ Len(batches[k].requests) >= 1
                 /\ Len(batches[k].requests) < maxBatchSize
                 /\ Cardinality(TimersOf(k)) = 1
                 /\ \A tm \in TimersOf(k) :
                        /\ tm.id = batches[k].timeout
                        /\ tm.deadline = batches[k].createdAt + batchWindow
                        /\ \A j \in 1..Len(batches[k].requests) :
                               reqs[batches[k].requests[j]].group = tm.id
          /\ \A tm \in timers : tm.key \in DOMAIN batches)
    /\ [][\A tm \in timers \ timers' :
              tm.key \in DOMAIN batches /\ tm.key \notin DOMAIN batches' =>
                  \/ /\ Len(calls') = Len(calls) + 1
                     /\ calls'[Len(calls')].by = "size"
                  \/ /\ Len(calls') = Len(calls) + 1
                     /\ calls'[Len(calls')].by = "timer"
                     /\ calls'[Len(calls')].group = tm.id
                     /\ calls'[Len(calls')].requests = batches[tm.key].requests
                     /\ now >= batches[tm.key].createdAt + batchWindow]_vars

\* a group was flushed by reaching maxBatchSize, and a later group with the
\* same key was flushed by its own timer
C34_Witness ==
    \E i \in 1..Len(calls), j \in 1..Len(calls) :
        /\ i < j
        /\ calls[i].by = "size" /\ Len(calls[i].requests) >= 2
        /\ calls[j].by = "timer"
        /\ getBatchKey(calls[i].configs[1]) = getBatchKey(calls[j].configs[1])

\* the step is a set of a key that is cached before it
RestoresKey == lastOp'.op = "set" /\ MapHas(cache, lastOp'.key)

\* the entries of the keys ks are the same before and after the step
KeepsEntries(ks) ==
    \A k \in ks : MapHas(cache', k) /\ MapGet(cache', k) = MapGet(cache, k)

\* C35 as stated: set on a key that is already cached replaces that key's
\* entry and leaves every other cached entry in place, also when the cache
\* holds maxSize entries.
C35_RestoreEvictsNothing ==
    [][RestoresKey =>
           /\ MapGet(cache', lastOp'.key) = lastOp'.entry
           /\ KeepsEntries(MapKeys(cache) \ {lastOp'.key})]_vars

\* C35 amended: the entry of the stored key is replaced; below maxSize every
\* other entry stays; at maxSize the key inserted earliest is evicted first,
\* the stored key itself when it is that key, and every other entry stays.
C35_RestoreEvictsOldestWhenFull ==
    [][RestoresKey =>
           LET key == lastOp'.key
               oldest == Head(insertOrder)
           IN  /\ MapGet(cache', key) = lastOp'.entry
               /\ MapSize(cache) < maxSize =>
                      /\ MapKeys(cache') = MapKeys(cache)
                      /\ KeepsEntries(MapKeys(cache) \ {key})
               /\ MapSize(cache) >= maxSize =>
                      /\ MapKeys(cache') = (MapKeys(cache) \ {oldest}) \cup {key}
                      /\ KeepsEntries(MapKeys(cache) \ {oldest, key})
                      /\ lastOp'.evicted = {oldest}]_vars

\* a set of a cached key has evicted a different key: the cache was full and
\* now holds fewer than maxSize entries
C35_Witness ==
    /\ lastOp.op = "set"
    /\ lastOp.evicted # {}
    /\ lastOp.key \notin lastOp.evicted
    /\ MapSize(cache) < maxSize

\* the keys of the Map in the order its iteration yields them
KeyOrder(m) == [i \in 1..Len(m) |-> m[i].key]

ReadOps == {"get", "shouldRefresh", "addConditionalHeaders"}

\* the entry is older than the TTL the specification gives it
PastClaimedTtl(entry) == now - entry.timestamp > ClaimedTtl(entry)

RemainingAsked ==
    /\ lastCall'.fn = "getRemainingAttempts"
    /\ attemptLog' = attemptLog /\ now' = now

\* C38: getRemainingAttempts(id) changes no rate-limit record, and it
\* returns a value greater than 0 if and only if isAllowed(id) called at the
\* same instant would return true.
C38_RemainingPredictsAllowed ==
    [][RemainingAsked =>
           /\ attempts' = attempts
           /\ lastResult'.value > 0 <=>
                  IsAllowed(attempts, lastCall'.args[1], now, maxAttempts, windowMs).allowed
           /\ \A id \in Identifiers :
                  IsAllowed(attempts', id, now', maxAttempts, windowMs) =
                  IsAllowed(attempts, id, now, maxAttempts, windowMs)]_vars

\* getRemainingAttempts has returned maxAttempts for an identifier whose
\* record is full and whose window has expired, and the record is still there
C38_Witness ==
    /\ lastCall.fn = "getRemainingAttempts"
    /\ lastCall.args[1] \in DOMAIN attempts
    /\ attempts[lastCall.args[1]].count >= maxAttempts
    /\ WindowExpired(attempts[lastCall.args[1]], now, windowMs)
    /\ lastResult = Returns(maxAttempts)

\* getRemainingAttempts has returned 0 inside the window
C38_WitnessRefused ==
    /\ lastCall.fn = "getRemainingAttempts"
    /\ lastCall.args[1] \in DOMAIN attempts
    /\ ~WindowExpired(attempts[lastCall.args[1]], now, windowMs)
    /\ lastResult = Returns(0)

\* C39: set(key, token, ttl) records expires = now + ttl for every ttl that
\* is supplied, ttl = 0 included, and expires = now + defaultTtl only when no
\* ttl is supplied.
C39_ExpiresBySuppliedTtl ==
    [][lastToken'.op = "set" =>
           tokenCache'[lastToken'.key].expires =
               now + (IF lastToken'.ttlMs.has THEN lastToken'.ttlMs.val
                      ELSE tokenDefaultTtl)]_vars

\* C40: in every reachable state of HealthMonitor requests.total =
\* requests.successful + requests.failed and the number of retained latency
\* samples is min(requests.total, 1000); in every reachable state of
\* RequestMetrics totalRequests = successfulRequests + failedRequests =
\* cacheHits + cacheMisses; also after reset calls.
C40_CountersAgree ==
    /\ health.requests.total = health.requests.successful + health.requests.failed
    /\ Len(health.responseTimes) = Min(health.requests.total, MaxResponseTimes)
    /\ metrics.totalRequests = metrics.successfulRequests + metrics.failedRequests
    /\ metrics.totalRequests = metrics.cacheHits + metrics.cacheMisses

\* the health monitor has recorded more than 1000 requests, and the request
\* metrics, which had recorded as many, have been reset and have recorded a
\* failed request served from the cache since
C40_Witness ==
    /\ health.requests.total > MaxResponseTimes
    /\ metrics.totalRequests = 1
    /\ metrics.failedRequests = 1 /\ metrics.cacheHits = 1

\* the health monitor has been reset after it had recorded 1000 requests
C40_WitnessHealthReset ==
    /\ metrics.totalRequests >= MaxResponseTimes
    /\ health.requests.total = 1 /\ Len(health.responseTimes) = 1

====
